---- MODULE Spec2Model ----
(***************************************************************************)
(* Spectral-reconstruction stage of the AAC decoder                         *)
(* (libavcodec/aac/aacdec_dsp_template.c): scalefactor dequantization,      *)
(* mid/side stereo and intensity stereo of one channel pair element.        *)
(*                                                                          *)
(* The template is modelled as built with USE_FIXED (INTFLOAT = int): a     *)
(* scalefactor is the integer the #if USE_FIXED branches compute.           *)
(* Arrays keep the indices of the source (0-based functions); a coefficient *)
(* of window w at position k lives at index w*128 + k as in the source.     *)
(* Only the positions k < swb_offset[num_swb] of each window are stored:    *)
(* no band reaches further.                                                 *)
(***************************************************************************)
EXTENDS Integers, Sequences, FiniteSets, TLC

(* ------------------------------------------------------------------ *)
(* enum BandType (libavcodec/aac.h).  INTENSITY_BT2 = 14 and           *)
(* INTENSITY_BT = 15 are what "c = -1 + 2 * (band_type - 14)" needs    *)
(* to give -1 and +1.  ESC_BT stands for every normal spectral type.   *)
(* ------------------------------------------------------------------ *)
ZERO_BT == 0
ESC_BT == 11
NOISE_BT == 13
INTENSITY_BT2 == 14
INTENSITY_BT == 15

BandTypes == {ZERO_BT, ESC_BT, NOISE_BT, INTENSITY_BT2, INTENSITY_BT}

(* enum WindowSequence *)
ONLY_LONG_SEQUENCE == "ONLY_LONG"
EIGHT_SHORT_SEQUENCE == "EIGHT_SHORT"

(* Coefficients of one short window; the stride of every window address. *)
WinLen == 128

(* ------------------------------------------------------------------ *)
(* Bounds of the model                                                  *)
(* ------------------------------------------------------------------ *)
(* Largest num_window_groups * max_sfb of a frame. *)
MaxBands == 2

Channels == {0, 1}
\* sf[], sfo[], band_type[], band_type_run_end[], ms_mask[] hold more entries
\* than a frame uses; two of the unused ones are kept.
SfIdx == 0..(MaxBands + 1)
NumSwb == MaxBands + 1

\* Values left in sf[] by whatever ran before the frame.
StaleSf(idx) == 7000 + idx

VARIABLES
    ics,                \* [ch -> IndividualChannelStream]: the band layout
    band_type,          \* [ch -> [idx -> BandType]]
    band_type_run_end,  \* [ch -> [idx -> int]]
    sfo,                \* [ch -> [idx -> int]] encoded scalefactors
    sf,                 \* [ch -> [idx -> int]] dequantized scalefactors
    coeffs,             \* [ch -> [index -> int]] the two spectra
    ms_mask,            \* [idx -> 0..1]
    ms_present,         \* 0..2, the argument of apply_intensity_stereo
    pc,                 \* stage of the frame: "dequant" until intensity stereo is done
    op,                 \* the operation that produced this state
    opch,               \* the channel the last dequant_scalefactors ran on
    dq,                 \* channels whose scalefactors are dequantized
    nms,                \* calls of apply_mid_side_stereo so far
    prev,               \* sf and coeffs as they were before the last operation
    wlog,               \* sf indices written by the last dequant, in order
    final_idx,          \* value of idx when the last operation returned
    wr,                 \* <<ch, index>> coefficients written by the last operation
    rd,                 \* <<ch, index>> coefficients read by the last operation
    tns,                \* TemporalNoiseShaping of the first channel
    tlog,               \* what the last apply_tns did, filter by filter
    ltp,                \* LongTermPrediction of the first channel: lag, coef, used[]
    ltp_state,          \* [0..3071 -> int] the prediction history of the channel
    output,             \* [0..2047 -> int] time-domain buffer of the channel
    buf_mdct,           \* [0..1023 -> int] transform buffer of the decoder
    saved,              \* [0..511 -> int] overlap kept by the synthesis stage
    nframe,             \* frames synthesized so far
    llog                \* what the last apply_ltp did

\* The state of long-term prediction.
ltpvars == <<ltp, ltp_state, output, buf_mdct, saved, nframe, llog>>

\* The state of the prediction tools.
predvars == <<tns, tlog, ltpvars>>

vars == <<ics, band_type, band_type_run_end, sfo, sf, coeffs, ms_mask,
          ms_present, pc, op, opch, dq, nms, prev, wlog, final_idx, wr, rd,
          predvars>>

inputs == <<ics, band_type, band_type_run_end, sfo, ms_mask, ms_present>>

(* ------------------------------------------------------------------ *)
(* Band layout                                                          *)
(* ------------------------------------------------------------------ *)
\* Two tables of strictly increasing band boundaries.
SwbLong == [i \in 0..NumSwb |-> 4 * i]
SwbShort == [i \in 0..NumSwb |-> (i * (i + 3)) \div 2]

Layout(ws, nw, gl, table, msfb) ==
    [window_sequence   |-> ws,
     num_windows       |-> nw,
     num_window_groups |-> Len(gl),
     group_len         |-> [g \in 0..(Len(gl) - 1) |-> gl[g + 1]],
     max_sfb           |-> msfb,
     num_swb           |-> NumSwb,
     swb_offset        |-> table]

Layouts ==
    { Layout(ONLY_LONG_SEQUENCE, 1, <<1>>, SwbLong, m) : m \in 0..MaxBands }
    \cup { Layout(EIGHT_SHORT_SEQUENCE, 8, <<8>>, SwbShort, m) : m \in 0..MaxBands }
    \cup { Layout(EIGHT_SHORT_SEQUENCE, 8, <<3, 5>>, SwbShort, m) :
               m \in 0..(MaxBands \div 2) }

NumBands(lay) == lay.num_window_groups * lay.max_sfb

\* Indices of the stored coefficients of a channel.
CoefIdx(lay) ==
    { w * WinLen + k : w \in 0..(lay.num_windows - 1),
                       k \in 0..(lay.swb_offset[lay.num_swb] - 1) }

\* Run ends of the bands of every group: band_type_run_end[g*max_sfb + i] is
\* the band index, within the group, at which the run containing band i ends.
RunEndsOK(lay, bt, re) ==
    \A g \in 0..(lay.num_window_groups - 1) : \A i \in 0..(lay.max_sfb - 1) :
        LET idx == g * lay.max_sfb + i IN
        /\ re[idx] > i
        /\ re[idx] <= lay.max_sfb
        /\ i + 1 < lay.max_sfb =>
              \/ re[idx] = i + 1
              \/ re[idx + 1] = re[idx] /\ bt[idx + 1] = bt[idx]

\* Band classifications of a channel: runs contiguous and exhaustive over
\* [0, max_sfb) in every group, equal band type within a run.  last[idx] says
\* that band idx is the last of its run.  Entries no band of the frame uses
\* hold ZERO_BT and a run end of 0.
BandData(lay, types) ==
    LET n == NumBands(lay)
        used == 0..(n - 1)
        ends == { c \in [bt : [used -> types], last : [used -> BOOLEAN]] :
                    \A idx \in used :
                        IF (idx % lay.max_sfb) + 1 = lay.max_sfb
                        THEN c.last[idx]
                        ELSE c.last[idx] \/ c.bt[idx + 1] = c.bt[idx] }
        RunEnd(c, idx) ==
            LET first == idx - (idx % lay.max_sfb) IN
            1 + CHOOSE j \in (idx % lay.max_sfb)..(lay.max_sfb - 1) :
                    /\ c.last[first + j]
                    /\ \A k \in (idx % lay.max_sfb)..(j - 1) : ~c.last[first + k]
    IN  { [bt |-> [idx \in SfIdx |-> IF idx < n THEN c.bt[idx] ELSE ZERO_BT],
           re |-> [idx \in SfIdx |-> IF idx < n THEN RunEnd(c, idx) ELSE 0]] :
          c \in ends }

(* ------------------------------------------------------------------ *)
(* dequant_scalefactors                                                 *)
(* ------------------------------------------------------------------ *)
\* A bug: zero bands fall through to the default mapping.
DequantValueZeroFallsThrough(bt, s) ==
    IF bt = INTENSITY_BT \/ bt = INTENSITY_BT2 THEN 100 - s
    ELSE IF bt = NOISE_BT THEN -(100 + s)
    ELSE -s

\* A bug: noise bands fall through to the intensity mapping.
DequantValueNoiseAsIntensity(bt, s) ==
    IF bt = ZERO_BT THEN 0
    ELSE IF bt = INTENSITY_BT \/ bt = INTENSITY_BT2 \/ bt = NOISE_BT THEN 100 - s
    ELSE -s

\* A bug: only INTENSITY_BT gets the intensity mapping.
DequantValueOneIntensity(bt, s) ==
    IF bt = ZERO_BT THEN 0
    ELSE IF bt = INTENSITY_BT THEN 100 - s
    ELSE IF bt = NOISE_BT THEN -(100 + s)
    ELSE -s

\* The switch on band_type[idx], USE_FIXED branches.
DequantValue(bt, s) ==
    IF bt = ZERO_BT THEN 0
    ELSE IF bt = INTENSITY_BT \/ bt = INTENSITY_BT2 THEN 100 - s
    ELSE IF bt = NOISE_BT THEN -(100 + s)
    ELSE -s

\* A bug: the run loop runs one band too far.
RunContinuesInclusive(i, run_end) == i <= run_end

\* Condition of "for (; i < run_end; i++, idx++)".
RunContinues(i, run_end) == i < run_end

\* The inner for loop of one run: every band of the run gets the value of the
\* band type found at the start of the run.
RECURSIVE DequantRun(_, _, _, _)
DequantRun(st, ch, bt, run_end) ==
    IF RunContinues(st.i, run_end)
    THEN DequantRun([st EXCEPT !.sf = [@ EXCEPT ![st.idx] = DequantValue(bt, sfo[ch][st.idx])],
                               !.log = Append(@, st.idx),
                               !.i = @ + 1,
                               !.idx = @ + 1],
                    ch, bt, run_end)
    ELSE st

\* "for (i = 0; i < ics->max_sfb;)": one run per iteration.  A run end that
\* does not lie beyond i leaves i where it is: the loop never ends.
RECURSIVE DequantGroup(_, _)
DequantGroup(st, ch) ==
    IF st.i < ics[ch].max_sfb
    THEN LET run_end == band_type_run_end[ch][st.idx] IN
         IF run_end <= st.i
         THEN [st EXCEPT !.hang = TRUE]
         ELSE DequantGroup(DequantRun(st, ch, band_type[ch][st.idx], run_end), ch)
    ELSE st

\* The groups without "i = 0" at the start of each.
RECURSIVE DequantGroupsNoReset(_, _, _)
DequantGroupsNoReset(st, ch, g) ==
    IF g < ics[ch].num_window_groups /\ ~st.hang
    THEN DequantGroupsNoReset(DequantGroup(st, ch), ch, g + 1)
    ELSE st

\* "for (g = 0; g < ics->num_window_groups; g++)".
RECURSIVE DequantGroups(_, _, _)
DequantGroups(st, ch, g) ==
    IF g < ics[ch].num_window_groups /\ ~st.hang
    THEN DequantGroups(DequantGroup([st EXCEPT !.i = 0], ch), ch, g + 1)
    ELSE st

dequant_scalefactors(ch) ==
    DequantGroups([sf |-> sf[ch], idx |-> 0, i |-> 0, log |-> <<>>, hang |-> FALSE],
                  ch, 0)

Snapshot == [sf |-> sf, coeffs |-> coeffs]

\* The channels of an element are decoded in order.
Dequant(ch) ==
    /\ pc = "dequant"
    /\ ch \notin dq
    /\ \A c \in Channels : c < ch => c \in dq
    /\ LET r == dequant_scalefactors(ch) IN
        /\ ~r.hang
        /\ sf' = [sf EXCEPT ![ch] = r.sf]
        /\ wlog' = r.log
        /\ final_idx' = r.idx
    /\ prev' = Snapshot
    /\ op' = "dequant"
    /\ opch' = ch
    /\ dq' = dq \cup {ch}
    /\ wr' = {}
    /\ rd' = {}
    /\ UNCHANGED <<inputs, coeffs, pc, nms, predvars>>

(* ------------------------------------------------------------------ *)
(* Vector primitives (AVFixedDSPContext / AACDecContext callbacks):     *)
(* elementwise sum/difference and scaled copy over a contiguous range.  *)
(* ------------------------------------------------------------------ *)
\* butterflies_fixed(v1, v2, len) on the ranges starting at index p:
\* v1[k] becomes v1[k] + v2[k], v2[k] becomes v1[k] - v2[k].
RECURSIVE butterflies_fixed(_, _, _)
butterflies_fixed(st, p, len) ==
    IF len <= 0 THEN st
    ELSE butterflies_fixed(
            [st EXCEPT !.c0 = [@ EXCEPT ![p] = st.c0[p] + st.c1[p]],
                       !.c1 = [@ EXCEPT ![p] = st.c0[p] - st.c1[p]],
                       !.wr = @ \cup {<<0, p>>, <<1, p>>},
                       !.rd = @ \cup {<<0, p>>, <<1, p>>}],
            p + 1, len - 1)

\* subband_scale(dst, src, scale, 23, len): dst[k] = src[k] scaled by scale,
\* dst in channel 1 and src in channel 0, both ranges starting at index p.
RECURSIVE subband_scale(_, _, _, _)
subband_scale(st, p, scale, len) ==
    IF len <= 0 THEN st
    ELSE subband_scale(
            [st EXCEPT !.c1 = [@ EXCEPT ![p] = st.c0[p] * scale],
                       !.wr = @ \cup {<<1, p>>},
                       !.rd = @ \cup {<<0, p>>}],
            p + 1, scale, len - 1)

\* Start state of a pass over the two spectra.  base is the offset the
\* pointers ch0/ch1 (coef0/coef1) have advanced from the start of coeffs.
PairState ==
    [c0 |-> coeffs[0], c1 |-> coeffs[1], wr |-> {}, rd |-> {},
     base |-> 0, i |-> 0, idx |-> 0, hang |-> FALSE]

\* A bug: the window offset is left out of the address.
BandAddrFirstWindow(base, group, off) == base + off

\* "ch + group * 128 + offsets[i]".
BandAddr(base, group, off) == base + group * WinLen + off

(* ------------------------------------------------------------------ *)
(* apply_mid_side_stereo                                                *)
(* ------------------------------------------------------------------ *)
\* A bug: only noise bands are kept out, compared by equality.
MsActiveNotNoise(idx) ==
    /\ ms_mask[idx] # 0
    /\ band_type[0][idx] # NOISE_BT
    /\ band_type[1][idx] # NOISE_BT

\* A bug: the mask is not looked at.
MsActiveNoMask(idx) ==
    /\ band_type[0][idx] < NOISE_BT
    /\ band_type[1][idx] < NOISE_BT

\* A bug: only the first channel's band type is looked at.
MsActiveFirstOnly(idx) ==
    /\ ms_mask[idx] # 0
    /\ band_type[0][idx] < NOISE_BT

\* The band types compared with INTENSITY_BT in place of NOISE_BT.
MsActiveBelowIntensity(idx) ==
    /\ ms_mask[idx] # 0
    /\ band_type[0][idx] < INTENSITY_BT
    /\ band_type[1][idx] < INTENSITY_BT

\* The condition under which a band is butterflied.
MsActive(idx) ==
    /\ ms_mask[idx] # 0
    /\ band_type[0][idx] < NOISE_BT
    /\ band_type[1][idx] < NOISE_BT

\* "for (group = 0; group < ics->group_len[g]; group++)" around the butterfly.
RECURSIVE MsWindows(_, _, _)
MsWindows(st, g, group) ==
    LET offsets == ics[0].swb_offset IN
    IF group < ics[0].group_len[g]
    THEN MsWindows(butterflies_fixed(st, BandAddr(st.base, group, offsets[st.i]),
                                     offsets[st.i + 1] - offsets[st.i]),
                   g, group + 1)
    ELSE st

\* "for (i = 0; i < ics->max_sfb; i++, idx++)".
RECURSIVE MsBands(_, _)
MsBands(st, g) ==
    IF st.i < ics[0].max_sfb
    THEN LET done == IF MsActive(st.idx) THEN MsWindows(st, g, 0) ELSE st IN
         MsBands([done EXCEPT !.i = @ + 1, !.idx = @ + 1], g)
    ELSE st

\* "for (g = 0; g < ics->num_window_groups; g++)", the pointers advancing by
\* group_len[g] * 128 after each group.
RECURSIVE MsGroups(_, _)
MsGroups(st, g) ==
    IF g < ics[0].num_window_groups
    THEN MsGroups([MsBands([st EXCEPT !.i = 0], g)
                       EXCEPT !.base = @ + ics[0].group_len[g] * WinLen],
                  g + 1)
    ELSE st

apply_mid_side_stereo == MsGroups(PairState, 0)

(* ------------------------------------------------------------------ *)
(* apply_intensity_stereo                                               *)
(* ------------------------------------------------------------------ *)
\* A bug: every band that is not normally coded is treated as intensity.
IsIntensityFromNoise(bt) == bt >= NOISE_BT

\* "band_type[idx] == INTENSITY_BT || band_type[idx] == INTENSITY_BT2".
IsIntensity(bt) == bt = INTENSITY_BT \/ bt = INTENSITY_BT2

\* A bug: the mask flips the sign whatever ms_present is.
IntensitySignAlwaysMask(idx) ==
    (-1 + 2 * (band_type[1][idx] - 14)) * (1 - 2 * ms_mask[idx])

\* "c = -1 + 2 * (band_type[idx] - 14); if (ms_present) c *= 1 - 2 * ms_mask[idx]".
IntensitySign(idx) ==
    LET c == -1 + 2 * (band_type[1][idx] - 14) IN
    IF ms_present # 0 THEN c * (1 - 2 * ms_mask[idx]) ELSE c

\* "for (group = 0; group < ics->group_len[g]; group++)" around the scaled copy.
RECURSIVE IsWindows(_, _, _, _)
IsWindows(st, g, scale, group) ==
    LET offsets == ics[1].swb_offset IN
    IF group < ics[1].group_len[g]
    THEN IsWindows(subband_scale(st, BandAddr(st.base, group, offsets[st.i]), scale,
                                 offsets[st.i + 1] - offsets[st.i]),
                   g, scale, group + 1)
    ELSE st

\* "for (; i < bt_run_end; i++, idx++)": the bands of an intensity run.
RECURSIVE IsRun(_, _, _)
IsRun(st, g, bt_run_end) ==
    IF st.i < bt_run_end
    THEN LET scale == IntensitySign(st.idx) * sf[1][st.idx] IN
         IsRun([IsWindows(st, g, scale, 0) EXCEPT !.i = @ + 1, !.idx = @ + 1],
               g, bt_run_end)
    ELSE st

\* "for (i = 0; i < ics->max_sfb;)": an intensity run is reconstructed, any
\* other run is stepped over without touching the spectra.
RECURSIVE IsBands(_, _)
IsBands(st, g) ==
    IF st.i < ics[1].max_sfb
    THEN LET bt_run_end == band_type_run_end[1][st.idx] IN
         IF bt_run_end <= st.i
         THEN [st EXCEPT !.hang = TRUE]
         ELSE IF IsIntensity(band_type[1][st.idx])
         THEN IsBands(IsRun(st, g, bt_run_end), g)
         ELSE IsBands([st EXCEPT !.idx = @ + (bt_run_end - st.i), !.i = bt_run_end], g)
    ELSE st

RECURSIVE IsGroups(_, _)
IsGroups(st, g) ==
    IF g < ics[1].num_window_groups /\ ~st.hang
    THEN IsGroups([IsBands([st EXCEPT !.i = 0], g)
                       EXCEPT !.base = @ + ics[1].group_len[g] * WinLen],
                  g + 1)
    ELSE st

apply_intensity_stereo == IsGroups(PairState, 0)

(* ------------------------------------------------------------------ *)
(* Operations on the channel pair                                       *)
(* ------------------------------------------------------------------ *)
\* How often apply_mid_side_stereo is run on one frame's spectra.
MaxMsCalls == 2

\* Stereo reconstruction starts when both channels are dequantized.
MidSide ==
    /\ pc = "dequant"
    /\ dq = Channels
    /\ nms < MaxMsCalls
    /\ LET r == apply_mid_side_stereo IN
        /\ coeffs' = [coeffs EXCEPT ![0] = r.c0, ![1] = r.c1]
        /\ wr' = r.wr
        /\ rd' = r.rd
        /\ final_idx' = r.idx
    /\ prev' = Snapshot
    /\ op' = "ms"
    /\ nms' = nms + 1
    /\ wlog' = <<>>
    /\ UNCHANGED <<inputs, sf, pc, opch, dq, predvars>>

Intensity ==
    /\ pc = "dequant"
    /\ dq = Channels
    /\ nms <= 1
    /\ LET r == apply_intensity_stereo IN
        /\ ~r.hang
        /\ coeffs' = [coeffs EXCEPT ![0] = r.c0, ![1] = r.c1]
        /\ wr' = r.wr
        /\ rd' = r.rd
        /\ final_idx' = r.idx
    /\ prev' = Snapshot
    /\ op' = "is"
    /\ pc' = "done"
    /\ wlog' = <<>>
    /\ UNCHANGED <<inputs, sf, opch, dq, nms, predvars>>

(* ------------------------------------------------------------------ *)
(* Frames                                                               *)
(* ------------------------------------------------------------------ *)
\* The spectra handed over by the bitstream stage.
InitCoef(chn, p) == IF chn = 0 THEN (p % 7) + 2 ELSE (p % 5) + 1

InitCoeffs(lay) == [chn \in Channels |-> [p \in CoefIdx(lay) |-> InitCoef(chn, p)]]

\* Every band a run of its own.
SingleRuns(lay, types) ==
    { d \in BandData(lay, types) :
        \A idx \in 0..(NumBands(lay) - 1) : d.re[idx] = (idx % lay.max_sfb) + 1 }

Masks(lay) ==
    { m \in [SfIdx -> 0..1] : \A idx \in SfIdx : idx >= NumBands(lay) => m[idx] = 0 }

AllOnes(lay) == [idx \in SfIdx |-> IF idx < NumBands(lay) THEN 1 ELSE 0]

InitGhost ==
    /\ sf = [chn \in Channels |-> [idx \in SfIdx |-> StaleSf(idx)]]
    /\ pc = "dequant"
    /\ op = "init"
    /\ opch = 0
    /\ dq = {}
    /\ nms = 0
    /\ prev = Snapshot
    /\ wlog = <<>>
    /\ final_idx = 0
    /\ wr = {}
    /\ rd = {}

\* A frame without temporal noise shaping.
NoTns ==
    /\ tns = [present |-> 0, n_filt |-> [w \in 0..7 |-> 0]]
    /\ tlog = <<>>

\* A channel without long-term prediction: its buffers are not looked at.
NoLtp ==
    /\ ltp = [present |-> 0]
    /\ ltp_state = <<>>
    /\ output = <<>>
    /\ buf_mdct = <<>>
    /\ saved = <<>>
    /\ nframe = 0
    /\ llog = <<>>

\* A channel pair with a common window.  Either both channels carry any band
\* types in runs of one band and the mask is the decoded one, or the first
\* channel is normally coded and the second carries any runs of any types,
\* under every ms_present mode.
Init ==
    /\ \E lay \in Layouts :
        /\ ics = [chn \in Channels |-> lay]
        /\ \/ /\ \E d0 \in SingleRuns(lay, {ESC_BT, NOISE_BT, INTENSITY_BT}),
                    d1 \in SingleRuns(lay, {ESC_BT, NOISE_BT, INTENSITY_BT}) :
                  /\ band_type = [chn \in Channels |-> IF chn = 0 THEN d0.bt ELSE d1.bt]
                  /\ band_type_run_end = [chn \in Channels |-> IF chn = 0 THEN d0.re ELSE d1.re]
              /\ ms_present = 1
              /\ ms_mask \in Masks(lay)
           \/ /\ \E d0 \in SingleRuns(lay, {ESC_BT}),
                    d1 \in BandData(lay, {ESC_BT, NOISE_BT, INTENSITY_BT2, INTENSITY_BT}) :
                  /\ band_type = [chn \in Channels |-> IF chn = 0 THEN d0.bt ELSE d1.bt]
                  /\ band_type_run_end = [chn \in Channels |-> IF chn = 0 THEN d0.re ELSE d1.re]
              /\ \/ ms_present \in {0, 1} /\ ms_mask \in Masks(lay)
                 \/ ms_present = 2 /\ ms_mask = AllOnes(lay)
        /\ coeffs = InitCoeffs(lay)
    /\ sfo = [chn \in Channels |-> [idx \in SfIdx |->
                 IF chn = 0 THEN 10 + idx ELSE 98 + 3 * idx]]
    /\ InitGhost
    /\ NoTns
    /\ NoLtp

Next ==
    \/ \E chn \in Channels : Dequant(chn)
    \/ MidSide
    \/ Intensity

Spec == Init /\ [][Next]_vars

\* Encoded scalefactors tried on every band.
SfoVals == {-100, -7, 0, 7, 10}

\* One channel with every band type, every run structure and every encoded
\* scalefactor; the second channel carries the same data.
InitDequant ==
    /\ \E lay \in Layouts :
        /\ ics = [chn \in Channels |-> lay]
        /\ \E d \in BandData(lay, BandTypes) :
            /\ band_type = [chn \in Channels |-> d.bt]
            /\ band_type_run_end = [chn \in Channels |-> d.re]
        /\ \E s \in [SfIdx -> SfoVals] :
            /\ \A idx \in SfIdx : idx >= NumBands(lay) => s[idx] = 0
            /\ sfo = [chn \in Channels |-> s]
        /\ coeffs = InitCoeffs(lay)
        /\ ms_mask = [idx \in SfIdx |-> 0]
    /\ ms_present = 0
    /\ InitGhost
    /\ NoTns
    /\ NoLtp

NextDequant == \E chn \in Channels : Dequant(chn)

SpecDequant == InitDequant /\ [][NextDequant]_vars

(* ------------------------------------------------------------------ *)
(* The spectrum as the data model partitions it                         *)
(* ------------------------------------------------------------------ *)
\* Bands of the frame, group-major.
Used(chn) == 0..(NumBands(ics[chn]) - 1)

\* First window of group g.
RECURSIVE FirstWindow(_, _)
FirstWindow(lay, g) ==
    IF g = 0 THEN 0 ELSE FirstWindow(lay, g - 1) + lay.group_len[g - 1]

\* Coefficient indices of band idx: its range in every window of its group.
BandPos(lay, idx) ==
    LET g == idx \div lay.max_sfb
        i == idx % lay.max_sfb
    IN  { (FirstWindow(lay, g) + w) * WinLen + k :
            w \in 0..(lay.group_len[g] - 1),
            k \in lay.swb_offset[i]..(lay.swb_offset[i + 1] - 1) }

\* Coefficient indices at or above swb_offset[max_sfb] in their window.
AbovePos(lay) ==
    { p \in CoefIdx(lay) : p % WinLen >= lay.swb_offset[lay.max_sfb] }

Intensities == {INTENSITY_BT, INTENSITY_BT2}

(* ------------------------------------------------------------------ *)
(* Properties of dequant_scalefactors                                   *)
(* ------------------------------------------------------------------ *)
\* C1: after dequant_scalefactors every band of the frame whose band type is
\* ZERO has sf = 0, whatever its encoded scalefactor.
C1_ZeroBandsGetZero ==
    \A chn \in dq : \A idx \in Used(chn) :
        band_type[chn][idx] = ZERO_BT => sf[chn][idx] = 0

C1_Witness ==
    /\ op = "dequant"
    /\ \E idx \in Used(opch) :
        /\ band_type[opch][idx] = ZERO_BT
        /\ sfo[opch][idx] # 0
        /\ prev.sf[opch][idx] # 0
        /\ sf[opch][idx] = 0

\* Not of the same sign (a zero counts as opposite to anything).
OppositeSign(a, b) == ~(a < 0 /\ b < 0) /\ ~(a > 0 /\ b > 0)

\* C2 as stated: a NOISE band and a normal band with the same encoded
\* scalefactor get scalefactors of opposite sign.
C2_NoiseOppositeToNormal ==
    \A chn \in dq : \A a, b \in Used(chn) :
        ( /\ band_type[chn][a] = NOISE_BT
          /\ band_type[chn][b] = ESC_BT
          /\ sfo[chn][a] = sfo[chn][b] )
        => OppositeSign(sf[chn][a], sf[chn][b])

\* C2 amended: a NOISE band with encoded scalefactor s gets the negation of
\* the scalefactor an INTENSITY band with encoded scalefactor -s gets (the
\* intensity mapping mirrored and negated), and a NOISE band and a normal band
\* with the same s > 0 both get a negative scalefactor.
C2_NoiseMirrorsIntensity ==
    \A chn \in dq : \A a, b \in Used(chn) :
        /\ ( /\ band_type[chn][a] = NOISE_BT
             /\ band_type[chn][b] \in Intensities
             /\ sfo[chn][a] = -sfo[chn][b] )
           => sf[chn][a] = -sf[chn][b]
        /\ ( /\ band_type[chn][a] = NOISE_BT
             /\ band_type[chn][b] = ESC_BT
             /\ sfo[chn][a] = sfo[chn][b]
             /\ sfo[chn][a] > 0 )
           => (sf[chn][a] < 0 /\ sf[chn][b] < 0)

C2_Witness ==
    /\ op = "dequant"
    /\ \E a, b \in Used(opch) :
        /\ band_type[opch][a] = NOISE_BT
        /\ band_type[opch][b] = INTENSITY_BT
        /\ sfo[opch][a] = 7
        /\ sfo[opch][b] = -7
        /\ sf[opch][a] = -107
        /\ sf[opch][b] = 107

\* C3: with integer scalefactors, sf[idx] is 0 for ZERO, 100 - sfo[idx] for
\* INTENSITY and INTENSITY_ALT, -(100 + sfo[idx]) for NOISE and -sfo[idx] for
\* every other band type.
C3_FixedMapping ==
    \A chn \in dq : \A idx \in Used(chn) :
        sf[chn][idx] =
            CASE band_type[chn][idx] = ZERO_BT -> 0
              [] band_type[chn][idx] \in Intensities -> 100 - sfo[chn][idx]
              [] band_type[chn][idx] = NOISE_BT -> 0 - (100 + sfo[chn][idx])
              [] OTHER -> 0 - sfo[chn][idx]

C3_Witness ==
    /\ op = "dequant"
    /\ NumBands(ics[opch]) = 2
    /\ band_type[opch][0] = INTENSITY_BT2
    /\ band_type[opch][1] = ESC_BT
    /\ sfo[opch][0] = 10 /\ sf[opch][0] = 90
    /\ sfo[opch][1] = -7 /\ sf[opch][1] = 7

\* C4: dequant_scalefactors changes nothing but sf[] of its channel: the band
\* classification, the run ends, the encoded scalefactors, the band layout,
\* the mask and both spectra are as before, and no sf entry at an index
\* >= num_window_groups * max_sfb is written.
C4_DequantFrame ==
    [][ op' = "dequant" =>
          /\ inputs' = inputs
          /\ coeffs' = coeffs
          /\ \A chn \in Channels : chn # opch' => sf'[chn] = sf[chn]
          /\ \A k \in 1..Len(wlog') : wlog'[k] \in Used(opch')
          /\ \A idx \in SfIdx : idx \notin Used(opch') => sf'[opch'][idx] = sf[opch'][idx]
      ]_vars

C4_Witness ==
    /\ op = "dequant"
    /\ Len(wlog) = 2
    /\ \A idx \in SfIdx : idx >= 2 => sf[opch][idx] = StaleSf(idx)
    /\ \A idx \in Used(opch) : sf[opch][idx] # StaleSf(idx)

(* ------------------------------------------------------------------ *)
(* Properties of apply_mid_side_stereo                                  *)
(* ------------------------------------------------------------------ *)
\* Band idx holds the sum and the difference of what the channels held.
Butterflied(idx) ==
    \A p \in BandPos(ics[0], idx) :
        /\ coeffs[0][p] = prev.coeffs[0][p] + prev.coeffs[1][p]
        /\ coeffs[1][p] = prev.coeffs[0][p] - prev.coeffs[1][p]

\* Band idx holds what it held, and was not stored to.
Untouched(idx) ==
    \A p \in BandPos(ics[0], idx) : \A chn \in Channels :
        /\ coeffs[chn][p] = prev.coeffs[chn][p]
        /\ <<chn, p>> \notin wr

\* C5 as stated: every band whose mask bit is set and of which neither
\* channel is NOISE is butterflied, intensity bands included.
C5_ButterflyUnlessNoise ==
    op = "ms" =>
        \A idx \in Used(0) :
            ( /\ ms_mask[idx] = 1
              /\ band_type[0][idx] # NOISE_BT
              /\ band_type[1][idx] # NOISE_BT )
            => Butterflied(idx)

\* C5 amended: every band whose mask bit is set and of which neither channel
\* is NOISE, INTENSITY or INTENSITY_ALT is butterflied in every window of its
\* group; a band of which a channel is INTENSITY or INTENSITY_ALT is left
\* unchanged even if its mask bit is set.
C5_ButterflyBelowNoise ==
    op = "ms" =>
        \A idx \in Used(0) :
            /\ ( /\ ms_mask[idx] = 1
                 /\ band_type[0][idx] \notin {NOISE_BT} \cup Intensities
                 /\ band_type[1][idx] \notin {NOISE_BT} \cup Intensities )
               => Butterflied(idx)
            /\ ( \/ band_type[0][idx] \in Intensities
                 \/ band_type[1][idx] \in Intensities )
               => Untouched(idx)

C5_Witness ==
    /\ op = "ms"
    /\ \E a, b \in Used(0) :
        /\ ms_mask[a] = 1 /\ ms_mask[b] = 1
        /\ band_type[0][a] = ESC_BT /\ band_type[1][a] = ESC_BT
        /\ band_type[0][b] = ESC_BT /\ band_type[1][b] = INTENSITY_BT
        /\ Butterflied(a)
        /\ Untouched(b)
        /\ ics[0].group_len[a \div ics[0].max_sfb] > 1

\* C6: apply_mid_side_stereo leaves unchanged, in both channels, every
\* coefficient of a band whose mask bit is clear or of which a channel is
\* NOISE, and every coefficient at or above swb_offset[max_sfb] of a window.
C6_MidSideFrame ==
    op = "ms" =>
        /\ \A idx \in Used(0) :
              ( \/ ms_mask[idx] = 0
                \/ band_type[0][idx] = NOISE_BT
                \/ band_type[1][idx] = NOISE_BT )
              => Untouched(idx)
        /\ \A p \in AbovePos(ics[0]) : \A chn \in Channels :
              /\ coeffs[chn][p] = prev.coeffs[chn][p]
              /\ <<chn, p>> \notin wr
        /\ \A w \in wr : w[2] \in CoefIdx(ics[0])

C6_Witness ==
    /\ op = "ms"
    /\ \E a, b \in Used(0) :
        /\ ms_mask[a] = 1 /\ band_type[0][a] = NOISE_BT /\ band_type[1][a] = ESC_BT
        /\ Untouched(a)
        /\ ms_mask[b] = 1 /\ band_type[0][b] = ESC_BT /\ band_type[1][b] = ESC_BT
        /\ \A p \in BandPos(ics[0], b) : <<0, p>> \in wr /\ <<1, p>> \in wr

\* C7: for a band with its mask bit set and both channels normally coded, one
\* call turns the coefficients (a, b) into (a + b, a - b) at every position
\* of every window of the group; (2, 1) becomes (3, 1).
C7_SumDifference ==
    op = "ms" =>
        \A idx \in Used(0) :
            ( /\ ms_mask[idx] = 1
              /\ band_type[0][idx] = ESC_BT
              /\ band_type[1][idx] = ESC_BT )
            => Butterflied(idx)

C7_Witness ==
    /\ op = "ms"
    /\ nms = 1
    /\ ms_mask[0] = 1
    /\ NumBands(ics[0]) > 0
    /\ ics[0].num_windows = 8
    /\ band_type[0][0] = ESC_BT /\ band_type[1][0] = ESC_BT
    /\ prev.coeffs[0][0] = 2 /\ prev.coeffs[1][0] = 1
    /\ coeffs[0][0] = 3 /\ coeffs[1][0] = 1
    /\ coeffs[0][2 * WinLen] = prev.coeffs[0][2 * WinLen] + prev.coeffs[1][2 * WinLen]

\* Positions of the bands a call butterflies.
ButterfliedPos ==
    UNION { BandPos(ics[0], idx) :
              idx \in { j \in Used(0) : /\ ms_mask[j] = 1
                                        /\ band_type[0][j] < NOISE_BT
                                        /\ band_type[1][j] < NOISE_BT } }

\* C8: after two calls with the same mask and band types every coefficient of
\* a butterflied band is exactly twice its original value in both channels,
\* and every other coefficient has its original value.
C8_TwiceIsDouble ==
    (op = "ms" /\ nms = 2) =>
        \A chn \in Channels : \A p \in CoefIdx(ics[0]) :
            coeffs[chn][p] = IF p \in ButterfliedPos
                             THEN 2 * InitCoef(chn, p)
                             ELSE InitCoef(chn, p)

C8_Witness ==
    /\ op = "ms"
    /\ nms = 2
    /\ ButterfliedPos # {}
    /\ ButterfliedPos # CoefIdx(ics[0])
    /\ \E p \in ButterfliedPos : coeffs[0][p] = 2 * InitCoef(0, p) /\ coeffs[0][p] # prev.coeffs[0][p]

(* ------------------------------------------------------------------ *)
(* Properties of apply_intensity_stereo                                 *)
(* ------------------------------------------------------------------ *)
\* C9: apply_intensity_stereo never writes a second-channel coefficient of a
\* band whose second-channel type is neither INTENSITY nor INTENSITY_ALT,
\* never reads a first-channel coefficient of such a band, and never modifies
\* a coefficient of the first channel.
C9_IntensityFrame ==
    op = "is" =>
        /\ \A idx \in Used(1) :
              band_type[1][idx] \notin Intensities =>
                  \A p \in BandPos(ics[1], idx) :
                      /\ <<1, p>> \notin wr
                      /\ <<0, p>> \notin rd
                      /\ coeffs[1][p] = prev.coeffs[1][p]
        /\ coeffs[0] = prev.coeffs[0]
        /\ \A w \in wr : w[1] = 1

C9_Witness ==
    /\ op = "is"
    /\ wr # {}
    /\ \E a, b \in Used(1) :
        /\ band_type[1][a] = NOISE_BT
        /\ band_type[1][b] = INTENSITY_BT
        /\ \A p \in BandPos(ics[1], a) : coeffs[1][p] = prev.coeffs[1][p]
        /\ \E p \in BandPos(ics[1], b) : coeffs[1][p] # prev.coeffs[1][p]

\* The sign of the claim: +1 for INTENSITY, -1 for INTENSITY_ALT, negated once
\* more exactly when ms_present is non-zero and the mask bit is set.
ClaimedSign(idx) ==
    LET c == IF band_type[1][idx] = INTENSITY_BT THEN 1 ELSE -1 IN
    IF ms_present # 0 /\ ms_mask[idx] = 1 THEN -c ELSE c

\* C10: every band whose second-channel type is INTENSITY or INTENSITY_ALT
\* has, in every window of its group, the second channel overwritten with the
\* first channel's coefficient times c * sf[idx]; nothing of the second
\* channel's previous coefficients enters, and the mask is ignored when
\* ms_present is 0.
C10_IntensityScale ==
    op = "is" =>
        \A idx \in Used(1) :
            band_type[1][idx] \in Intensities =>
                \A p \in BandPos(ics[1], idx) :
                    /\ coeffs[1][p] = prev.coeffs[0][p] * (ClaimedSign(idx) * sf[1][idx])
                    /\ <<1, p>> \in wr
                    /\ <<1, p>> \notin rd

C10_Witness ==
    /\ op = "is"
    /\ ms_present = 0
    /\ \E a, b \in Used(1) :
        /\ band_type[1][a] = INTENSITY_BT /\ ms_mask[a] = 1
        /\ band_type[1][b] = INTENSITY_BT2 /\ ms_mask[b] = 1
        /\ sf[1][a] # 0 /\ sf[1][b] # 0
        /\ \A p \in BandPos(ics[1], a) : coeffs[1][p] = prev.coeffs[0][p] * sf[1][a]
        /\ \A p \in BandPos(ics[1], b) : coeffs[1][p] = 0 - prev.coeffs[0][p] * sf[1][b]

(* ------------------------------------------------------------------ *)
(* Temporal noise shaping (apply_tns)                                   *)
(*                                                                      *)
(* Coefficients and taps are unbounded integers here: the inputs are    *)
(* small enough that no 32-bit value would wrap.                        *)
(* ------------------------------------------------------------------ *)
\* Highest filter order and most filters of a window tried.
MaxOrder == 2
MaxFilt == 2

FFMIN(a, b) == IF a < b THEN a ELSE b
FFMAX(a, b) == IF a > b THEN a ELSE b

\* The product of a sample and a tap.
AAC_MUL26(x, y) == x * y

\* compute_lpc_coefs(in, order, lpc, 0, 0, 0): the step-up recursion from the
\* transmitted coefficients to the direct-form taps lpc[0..order-1].
RECURSIVE LpcStepUp(_, _, _, _)
LpcStepUp(lpc, in, order, i) ==
    IF i < order THEN
        LET r == 0 - in[i] IN
        LpcStepUp([k \in DOMAIN lpc |->
                      IF k < i THEN lpc[k] + AAC_MUL26(r, lpc[i - 1 - k])
                      ELSE IF k = i THEN r
                      ELSE lpc[k]],
                  in, order, i + 1)
    ELSE lpc

compute_lpc_coefs(in, order) ==
    LpcStepUp([k \in 0..(order - 1) |-> 0], in, order, 0)

\* The state of a run of apply_tns: the spectrum, the local array tmp[],
\* the filter slot at work (cur), for every entry of tmp[] the slot whose
\* input sample it holds (tmpsrc, <<>> for what the stack held), the reads of
\* tmp[], the indices read and written, and the record of every filter slot.
RECURSIVE ArTaps(_, _, _, _, _, _, _)

\* The ar filter subtracting the bare tap.
ArTapsTapOnly(st, start, inc, m, order, lpc, i) ==
    IF i <= FFMIN(m, order) THEN
        ArTaps([st EXCEPT !.coef[start] = @ - lpc[i - 1], !.wr = @ \cup {start}],
               start, inc, m, order, lpc, i + 1)
    ELSE st

\* The ar filter adding the weighted outputs.
ArTapsAdding(st, start, inc, m, order, lpc, i) ==
    IF i <= FFMIN(m, order) THEN
        ArTaps([st EXCEPT
                   !.coef[start] = @ + AAC_MUL26(st.coef[start - i * inc], lpc[i - 1]),
                   !.rd = @ \cup {start, start - i * inc},
                   !.wr = @ \cup {start}],
               start, inc, m, order, lpc, i + 1)
    ELSE st

\* "for (i = 1; i <= FFMIN(m, order); i++)
\*      coef[start] -= AAC_MUL26(coef[start - i * inc], lpc[i - 1]);"
ArTaps(st, start, inc, m, order, lpc, i) ==
    IF i <= FFMIN(m, order) THEN
        ArTaps([st EXCEPT
                   !.coef[start] = @ - AAC_MUL26(st.coef[start - i * inc], lpc[i - 1]),
                   !.rd = @ \cup {start, start - i * inc},
                   !.wr = @ \cup {start}],
               start, inc, m, order, lpc, i + 1)
    ELSE st

\* "for (m = 0; m < size; m++, start += inc)" of the ar filter.
\* The loop counter m is st.m.
RECURSIVE ArFilter(_, _, _, _, _, _)
ArFilter(st, start, inc, size, order, lpc) ==
    IF st.m < size THEN
        ArFilter([ArTaps([st EXCEPT !.seq = Append(@, start)],
                         start, inc, st.m, order, lpc, 1)
                     EXCEPT !.m = @ + 1],
                 start + inc, inc, size, order, lpc)
    ELSE st

\* The ma filter reading all of tmp[1..order] from the first sample on.
RECURSIVE MaTapsEager(_, _, _, _, _, _)
MaTapsEager(st, start, m, order, lpc, i) ==
    IF i <= order THEN
        MaTapsEager([st EXCEPT
                        !.coef[start] = @ + AAC_MUL26(st.tmp[i], lpc[i - 1]),
                        !.rd = @ \cup {start},
                        !.wr = @ \cup {start},
                        !.tmprd = @ \cup {<<i, st.tmpsrc[i], st.cur>>}],
                    start, m, order, lpc, i + 1)
    ELSE st

\* The ma filter with its first tap only.
MaTapsFirstOnly(st, start, m, order, lpc, i) ==
    IF i <= FFMIN(m, FFMIN(order, 1)) THEN
        [st EXCEPT
            !.coef[start] = @ + AAC_MUL26(st.tmp[i], lpc[i - 1]),
            !.rd = @ \cup {start},
            !.wr = @ \cup {start},
            !.tmprd = @ \cup {<<i, st.tmpsrc[i], st.cur>>}]
    ELSE st

\* "for (i = 1; i <= FFMIN(m, order); i++)
\*      coef[start] += AAC_MUL26(tmp[i], lpc[i - 1]);"
RECURSIVE MaTaps(_, _, _, _, _, _)
MaTaps(st, start, m, order, lpc, i) ==
    IF i <= FFMIN(m, order) THEN
        MaTaps([st EXCEPT
                   !.coef[start] = @ + AAC_MUL26(st.tmp[i], lpc[i - 1]),
                   !.rd = @ \cup {start},
                   !.wr = @ \cup {start},
                   !.tmprd = @ \cup {<<i, st.tmpsrc[i], st.cur>>}],
               start, m, order, lpc, i + 1)
    ELSE st

\* tmp[] left as it is.
MaShiftNone(st, order) == st

\* "for (i = order; i > 0; i--) tmp[i] = tmp[i - 1];"
MaShift(st, order) ==
    [st EXCEPT
        !.tmp = [i \in DOMAIN st.tmp |->
                    IF i >= 1 /\ i <= order THEN st.tmp[i - 1] ELSE st.tmp[i]],
        !.tmpsrc = [i \in DOMAIN st.tmpsrc |->
                    IF i >= 1 /\ i <= order THEN st.tmpsrc[i - 1] ELSE st.tmpsrc[i]]]

\* "for (m = 0; m < size; m++, start += inc)" of the ma filter.
\* The loop counter m is st.m.
RECURSIVE MaFilter(_, _, _, _, _, _)
MaFilter(st, start, inc, size, order, lpc) ==
    IF st.m < size THEN
        LET s0 == [st EXCEPT !.seq = Append(@, start),
                             !.tmp[0] = st.coef[start],
                             !.tmpsrc[0] = st.cur,
                             !.rd = @ \cup {start}]
        IN MaFilter([MaShift(MaTaps(s0, start, st.m, order, lpc, 1), order)
                        EXCEPT !.m = @ + 1],
                    start + inc, inc, size, order, lpc)
    ELSE st

\* max_sfb alone as the limit.
TnsMmmNoClip(lay) == lay.max_sfb

\* The larger of the two limits.
TnsMmmMax(lay) == FFMAX(lay.tns_max_bands, lay.max_sfb)

\* "const int mmm = FFMIN(ics->tns_max_bands, ics->max_sfb);"
TnsMmm(lay) == FFMIN(lay.tns_max_bands, lay.max_sfb)

\* A filter slot is passed over by "if (order == 0) continue;" and by
\* "if ((size = end - start) <= 0) continue;".
TnsRuns(order, size) == order # 0 /\ size > 0

\* Every filter walking upwards from the start of its span.
TnsWalkForward(start, end, direction, w) ==
    [first |-> start + w * WinLen, inc |-> 1]

\* Where a filter starts and which way it walks: "if (tns->direction[w][filt])
\* { inc = -1; start = end - 1; } else { inc = 1; } start += w * 128;"
TnsWalk(start, end, direction, w) ==
    IF direction # 0
    THEN [first |-> end - 1 + w * WinLen, inc |-> 0 - 1]
    ELSE [first |-> start + w * WinLen, inc |-> 1]

\* A filter that takes no bands.
TnsBottomKeep(top, length) == top

\* "bottom = FFMAX(0, top - tns->length[w][filt]);"
TnsBottom(top, length) == FFMAX(0, top - length)

\* The body of "for (filt = 0; filt < tns->n_filt[w]; filt++)".
RECURSIVE TnsFilters(_, _, _, _, _, _, _)
TnsFilters(st, t, lay, decode, w, filt, bottom0) ==
    IF filt < t.n_filt[w] THEN
        LET top    == bottom0
            bottom == TnsBottom(top, t.length[w][filt])
            order  == t.order[w][filt]
            lpc    == compute_lpc_coefs(t.coef[w][filt], order)
            mmm    == TnsMmm(lay)
            start  == lay.swb_offset[FFMIN(bottom, mmm)]
            end    == lay.swb_offset[FFMIN(top, mmm)]
            size   == end - start
            walk   == TnsWalk(start, end, t.direction[w][filt], w)
            s0     == [st EXCEPT !.seq = <<>>, !.cur = <<w, filt>>, !.m = 0]
            s1     == IF ~TnsRuns(order, size) THEN s0
                      ELSE IF decode # 0
                           THEN ArFilter(s0, walk.first, walk.inc, size, order, lpc)
                           ELSE MaFilter(s0, walk.first, walk.inc, size, order, lpc)
            slot   == [w |-> w, filt |-> filt, top |-> top, bottom |-> bottom,
                       order |-> order, lpc |-> lpc, start |-> start, end |-> end,
                       direction |-> t.direction[w][filt],
                       ran |-> TnsRuns(order, size), seq |-> s1.seq]
        IN TnsFilters([s1 EXCEPT !.log = Append(@, slot)],
                      t, lay, decode, w, filt + 1, bottom)
    ELSE st

\* "for (w = 0; w < ics->num_windows; w++) { bottom = ics->num_swb; ..."
RECURSIVE TnsWindows(_, _, _, _, _)
TnsWindows(st, t, lay, decode, w) ==
    IF w < lay.num_windows THEN
        TnsWindows(TnsFilters(st, t, lay, decode, w, 0, lay.num_swb),
                   t, lay, decode, w + 1)
    ELSE st

\* apply_tns(coef, tns, ics, decode); the local array tmp[] starts with
\* whatever the stack holds: garbage.
apply_tns(coef, t, lay, decode, garbage) ==
    LET st == [coef |-> coef,
               tmp |-> [i \in 0..MaxOrder |-> garbage],
               tmpsrc |-> [i \in 0..MaxOrder |-> <<>>], cur |-> <<>>, m |-> 0,
               tmprd |-> {}, rd |-> {}, wr |-> {}, seq |-> <<>>, log |-> <<>>]
    IN IF TnsMmm(lay) = 0 THEN st ELSE TnsWindows(st, t, lay, decode, 0)

(* ------------------------------------------------------------------ *)
(* Frames with temporal noise shaping                                   *)
(* ------------------------------------------------------------------ *)
\* Values the uninitialised tmp[] may hold.
Garbage == {0 - 77, 55}

\* Transmitted filter coefficients of filter slot f.
TnsCoef(f, i) == IF f % 2 = 0 /\ i % 2 = 0 THEN 1 ELSE 0 - 1

TnsSlot(len, ord, dir) == [length |-> len, order |-> ord, direction |-> dir]

\* The TemporalNoiseShaping whose windows wins carry the filters fl.
TnsOf(wins, fl) ==
    LET Has(w, f) == w \in wins /\ f < Len(fl) IN
    [present   |-> IF Len(fl) > 0 THEN 1 ELSE 0,
     n_filt    |-> [w \in 0..7 |-> IF w \in wins THEN Len(fl) ELSE 0],
     length    |-> [w \in 0..7 |-> [f \in 0..(MaxFilt - 1) |->
                      IF Has(w, f) THEN fl[f + 1].length ELSE 0]],
     order     |-> [w \in 0..7 |-> [f \in 0..(MaxFilt - 1) |->
                      IF Has(w, f) THEN fl[f + 1].order ELSE 0]],
     direction |-> [w \in 0..7 |-> [f \in 0..(MaxFilt - 1) |->
                      IF Has(w, f) THEN fl[f + 1].direction ELSE 0]],
     coef      |-> [w \in 0..7 |-> [f \in 0..(MaxFilt - 1) |->
                      [i \in 0..(MaxOrder - 1) |-> TnsCoef(f, i)]]]]

\* One filter of any length, order and direction; a long window may also
\* carry several filters, here of order 0 or MaxOrder running the same way.
TnsFilterLists(lay) ==
    { <<TnsSlot(len, ord, dir)>> :
        len \in 0..(NumSwb + 1), ord \in 0..MaxOrder, dir \in 0..1 }
    \cup IF lay.num_windows > 1 THEN {}
         ELSE UNION { { [f \in 1..n |-> TnsSlot(ls[f], os[f], dir)] :
                          ls \in [1..n -> 0..2], os \in [1..n -> {0, MaxOrder}],
                          dir \in 0..1 } : n \in 2..MaxFilt }

TnsLayouts ==
    { lay @@ [tns_max_bands |-> t] :
        lay \in { l \in Layouts : l.num_window_groups = 1 },
        t \in {0, 1, NumSwb} }

ZeroCoeffs(lay) == [chn \in Channels |-> [p \in CoefIdx(lay) |-> 0]]

InitTns ==
    /\ \E lay \in TnsLayouts :
        /\ ics = [chn \in Channels |-> lay]
        /\ coeffs \in {InitCoeffs(lay), ZeroCoeffs(lay)}
        /\ \E fl \in TnsFilterLists(lay) :
            \E wins \in {0..(lay.num_windows - 1)}
                           \cup (IF lay.num_windows > 1 THEN {{5}} ELSE {}) :
                tns = TnsOf(wins, fl)
    /\ band_type = [chn \in Channels |-> [idx \in SfIdx |-> ESC_BT]]
    /\ band_type_run_end = [chn \in Channels |-> [idx \in SfIdx |-> 0]]
    /\ sfo = [chn \in Channels |-> [idx \in SfIdx |-> 0]]
    /\ sf = [chn \in Channels |-> [idx \in SfIdx |-> StaleSf(idx)]]
    /\ ms_mask = [idx \in SfIdx |-> 0]
    /\ ms_present = 0
    /\ pc = "tns"
    /\ op = "init"
    /\ opch = 0
    /\ dq = Channels
    /\ nms = 0
    /\ prev = Snapshot
    /\ wlog = <<>>
    /\ final_idx = 0
    /\ wr = {}
    /\ rd = {}
    /\ tlog = <<>>
    /\ NoLtp

\* apply_tns on the spectrum of the first channel of the frame, and once
\* more the other way on its result.
ApplyTns(decode) ==
    /\ pc = "tns"
    /\ \/ op = "init"
       \/ op = "tns" /\ tlog.calls = 1 /\ tlog.decode # decode
    /\ \E g \in Garbage :
        LET r == apply_tns(coeffs[0], tns, ics[0], decode, g) IN
        /\ coeffs' = [coeffs EXCEPT ![0] = r.coef]
        /\ wr' = { <<0, p>> : p \in r.wr }
        /\ rd' = { <<0, p>> : p \in r.rd }
        /\ tlog' = [decode |-> decode, slots |-> r.log, tmprd |-> r.tmprd,
                    calls |-> IF op = "init" THEN 1 ELSE 2,
                    orig |-> IF op = "init" THEN coeffs[0] ELSE tlog.orig]
    /\ prev' = Snapshot
    /\ op' = "tns"
    /\ UNCHANGED <<inputs, sf, pc, opch, dq, nms, wlog, final_idx, tns, ltpvars>>

NextTns == \E decode \in 0..1 : ApplyTns(decode)

SpecTns == InitTns /\ [][NextTns]_vars

(* ------------------------------------------------------------------ *)
(* Temporal noise shaping as the data model describes it                *)
(* ------------------------------------------------------------------ *)
TnsDone == op = "tns"

\* The band range of filter f of window w: the first filter ends at num_swb,
\* every further one where its predecessor began.
RECURSIVE TopBand(_, _)
BottomBand(w, f) == FFMAX(0, TopBand(w, f) - tns.length[w][f])
TopBand(w, f) == IF f = 0 THEN ics[0].num_swb ELSE BottomBand(w, f - 1)

\* The bands apply_tns may touch.
TnsLimit == FFMIN(ics[0].tns_max_bands, ics[0].max_sfb)

\* The coefficient span [SpanLo, SpanHi) of a filter within its window.
SpanLo(w, f) == ics[0].swb_offset[FFMIN(BottomBand(w, f), TnsLimit)]
SpanHi(w, f) == ics[0].swb_offset[FFMIN(TopBand(w, f), TnsLimit)]
Span(w, f) == { w * WinLen + k : k \in SpanLo(w, f)..(SpanHi(w, f) - 1) }

TnsSlots == { <<w, f>> \in (0..(ics[0].num_windows - 1)) \X (0..(MaxFilt - 1)) :
                f < tns.n_filt[w] }

\* The filters that have work to do.
Working == { s \in TnsSlots : tns.order[s[1]][s[2]] # 0 /\ Span(s[1], s[2]) # {} }

SameAt(P) == \A p \in P : coeffs[0][p] = prev.coeffs[0][p]

\* C11: apply_tns, in either direction, leaves the span of every filter of
\* order 0 as it was, and leaves the whole spectrum as it was when every
\* filter has order 0 or an empty span or when min(tns_max_bands, max_sfb)
\* is 0.
C11_TnsNoOp ==
    TnsDone =>
        /\ \A s \in TnsSlots : tns.order[s[1]][s[2]] = 0 => SameAt(Span(s[1], s[2]))
        /\ Working = {} => coeffs = prev.coeffs
        /\ TnsLimit = 0 => coeffs = prev.coeffs

\* A filter of order 0 over a non-empty span beside a filter that changed
\* its own span.
C11_Witness ==
    /\ TnsDone
    /\ \E s \in TnsSlots : tns.order[s[1]][s[2]] = 0 /\ Span(s[1], s[2]) # {}
    /\ coeffs # prev.coeffs

\* The filter of a slot as apply_tns sees it.
Order(s) == tns.order[s[1]][s[2]]
Taps(s) == compute_lpc_coefs(tns.coef[s[1]][s[2]], Order(s))
Size(s) == SpanHi(s[1], s[2]) - SpanLo(s[1], s[2])

\* The index of the m-th sample a filter processes, m = 0..Size - 1.
Pos(s, m) ==
    s[1] * WinLen + (IF tns.direction[s[1]][s[2]] # 0
                     THEN SpanHi(s[1], s[2]) - 1 - m
                     ELSE SpanLo(s[1], s[2]) + m)

\* Input and output of a filter: the spans are disjoint, so what the call
\* found and what it left at Pos(s, m).
X(s, m) == prev.coeffs[0][Pos(s, m)]
Y(s, m) == coeffs[0][Pos(s, m)]

RECURSIVE SumOf(_, _, _)
SumOf(f, i, n) == IF i > n THEN 0 ELSE f[i] + SumOf(f, i + 1, n)

\* C12: apply_tns in decode direction turns an all-zero spectrum into an
\* all-zero spectrum, whatever the filters are.
C12_ZeroStaysZero ==
    (TnsDone /\ tlog.decode = 1 /\ \A p \in DOMAIN prev.coeffs[0] : prev.coeffs[0][p] = 0)
        => \A p \in DOMAIN coeffs[0] : coeffs[0][p] = 0

\* An all-zero spectrum run through a filter that is longer than its order.
C12_Witness ==
    /\ TnsDone
    /\ tlog.decode = 1
    /\ \A p \in DOMAIN prev.coeffs[0] : prev.coeffs[0][p] = 0
    /\ \E s \in Working : Order(s) = MaxOrder /\ Size(s) > MaxOrder /\ wr # {}

\* C13: in decode direction the m-th processed sample becomes
\* y[m] = x[m] - sum over i = 1..min(m, order) of tap[i-1] * y[m-i], with the
\* outputs y already computed; the first processed sample keeps its value and
\* nothing outside the spans of the working filters is read or written.
C13_ArFilter ==
    (TnsDone /\ tlog.decode = 1) =>
        /\ \A s \in Working : \A m \in 0..(Size(s) - 1) :
              Y(s, m) = X(s, m)
                  - SumOf([i \in 1..FFMIN(m, Order(s)) |-> Taps(s)[i - 1] * Y(s, m - i)],
                          1, FFMIN(m, Order(s)))
        /\ \A s \in Working : Y(s, 0) = X(s, 0)
        /\ \A a \in wr \cup rd :
              a[1] = 0 /\ \E s \in Working : a[2] \in Span(s[1], s[2])

\* A filter of the highest order past its ramp-up, fed by its own outputs.
C13_Witness ==
    /\ TnsDone
    /\ tlog.decode = 1
    /\ \E s \in Working :
        /\ Order(s) = MaxOrder
        /\ Size(s) > MaxOrder + 1
        /\ \E m \in 1..(Size(s) - 1) : Y(s, m) # X(s, m) /\ Y(s, m - 1) # X(s, m - 1)

\* C14: in synthesis direction (decode = 0) the m-th processed sample becomes
\* y[m] = x[m] + sum over i = 1..min(m, order) of tap[i-1] * x[m-i], with x
\* the values the span held before the filter ran.
C14_MaFilter ==
    (TnsDone /\ tlog.decode = 0) =>
        \A s \in Working : \A m \in 0..(Size(s) - 1) :
            Y(s, m) = X(s, m)
                + SumOf([i \in 1..FFMIN(m, Order(s)) |-> Taps(s)[i - 1] * X(s, m - i)],
                        1, FFMIN(m, Order(s)))

\* A filter of the highest order past its ramp-up whose inputs and outputs
\* differ, so that feeding it outputs would show.
C14_Witness ==
    /\ TnsDone
    /\ tlog.decode = 0
    /\ \E s \in Working :
        /\ Order(s) = MaxOrder
        /\ Size(s) > MaxOrder + 1
        /\ \E m \in 1..(Size(s) - 1) : Y(s, m) # X(s, m) /\ Y(s, m - 1) # X(s, m - 1)

\* What the last call logged for a slot.
SlotLog(s) ==
    CHOOSE e \in { tlog.slots[k] : k \in DOMAIN tlog.slots } :
        e.w = s[1] /\ e.filt = s[2]

\* C15: a filter with direction set processes its span [start, end) from
\* end-1 down to start, one with direction clear from start up to end-1; in
\* both cases it processes end - start samples, every index of the span once.
C15_Direction ==
    TnsDone =>
        \A s \in Working :
            LET seq == SlotLog(s).seq
                lo  == s[1] * WinLen + SpanLo(s[1], s[2])
                hi  == s[1] * WinLen + SpanHi(s[1], s[2])
            IN /\ Len(seq) = hi - lo
               /\ \A k \in 1..Len(seq) :
                     seq[k] = IF tns.direction[s[1]][s[2]] # 0 THEN hi - k ELSE lo + k - 1
               /\ \A p \in lo..(hi - 1) : Cardinality({ k \in 1..Len(seq) : seq[k] = p }) = 1

\* A downward filter longer than its order whose last processed sample, the
\* lowest of the span, has changed.
C15_Witness ==
    /\ TnsDone
    /\ \E s \in Working :
        /\ tns.direction[s[1]][s[2]] = 1
        /\ Size(s) > MaxOrder
        /\ Y(s, Size(s) - 1) # X(s, Size(s) - 1)
        /\ Pos(s, Size(s) - 1) = s[1] * WinLen + SpanLo(s[1], s[2])

\* C16: apply_tns never modifies a coefficient w*128 + k with
\* k >= swb_offset[min(tns_max_bands, max_sfb)]: every filter works on
\* [swb_offset[min(bottom, mmm)], swb_offset[min(top, mmm)]) of its window, and
\* a filter whose clipped span is empty changes nothing.
C16_TnsClipped ==
    TnsDone =>
        /\ \A p \in DOMAIN coeffs[0] :
              (p % WinLen) >= ics[0].swb_offset[TnsLimit]
                  => coeffs[0][p] = prev.coeffs[0][p] /\ <<0, p>> \notin wr
        /\ \A k \in DOMAIN tlog.slots :
              LET e == tlog.slots[k] IN
              /\ e.start = SpanLo(e.w, e.filt)
              /\ e.end = SpanHi(e.w, e.filt)
              /\ e.end <= e.start => ~e.ran /\ e.seq = <<>>
        /\ \A a \in wr : \E s \in Working : a[2] \in Span(s[1], s[2])
        /\ coeffs[1] = prev.coeffs[1]

\* tns_max_bands cuts a working filter short of the bands max_sfb allows,
\* and another filter of the call is left with nothing.
C16_Witness ==
    /\ TnsDone
    /\ ics[0].tns_max_bands < ics[0].max_sfb
    /\ coeffs # prev.coeffs
    /\ \E s \in Working : TopBand(s[1], s[2]) > TnsLimit
    /\ \E s \in TnsSlots : Order(s) # 0 /\ Span(s[1], s[2]) = {}

(* ------------------------------------------------------------------ *)
(* Long-term prediction (apply_ltp)                                     *)
(* ------------------------------------------------------------------ *)
LONG_START_SEQUENCE == "LONG_START"
LONG_STOP_SEQUENCE == "LONG_STOP"

\* Bands long-term prediction can be switched on for.
MAX_LTP_LONG_SFB == 40

\* The float build (INTFLOAT is float): a result that is not finite, an
\* infinity or a NaN.  Every sum and product it enters is not finite either.
NonFinite == 0 - 1000000000

FMul(x, y) == IF x = NonFinite \/ y = NonFinite THEN NonFinite ELSE x * y
FAdd(x, y) == IF x = NonFinite \/ y = NonFinite THEN NonFinite ELSE x + y
FSub(x, y) == IF x = NonFinite \/ y = NonFinite THEN NonFinite ELSE x - y

\* The product of a history sample and the prediction gain.
AAC_MUL30(x, y) == FMul(x, y)

\* All 2048 samples whatever the lag.
NumSamplesFull(lag) == 2048

\* "int16_t num_samples = 2048;
\*  if (ltp->lag < 1024) num_samples = ltp->lag + 1024;"
NumSamples(lag) == IF lag < 1024 THEN lag + 1024 ELSE 2048

\* The index of ltp_state[] read for predTime[i].
LtpIndex(i, lag) == i + 2048 - lag

\* ltp_state[idx]: a read past the array yields whatever lies there.
LtpStateAt(state, idx, garbage) ==
    IF idx \in DOMAIN state THEN state[idx] ELSE garbage

\* "for (i = 0; i < num_samples; i++) predTime[i] = AAC_MUL30(...);
\*  memset(&predTime[i], 0, (2048 - i) * sizeof(*predTime));"
PredTime(state, l, garbage) ==
    [i \in 0..2047 |->
        IF i < NumSamples(l.lag)
        THEN AAC_MUL30(LtpStateAt(state, LtpIndex(i, l.lag), garbage), l.coef)
        ELSE 0]

\* ac->windowing_and_mdct_ltp(ac, predFreq, predTime, &sce->ics): a pure
\* function from the 2048 samples to 1024 coefficients.
windowing_and_mdct_ltp(time, lay) ==
    [k \in 0..1023 |->
        FAdd(FSub(time[k], time[2047 - k]), time[(3 * k) % 2048])]

\* The filter run on every frame.
LtpRunsTnsAlways(t) == TRUE

\* "if (sce->tns.present)"
LtpRunsTns(t) == t.present # 0

\* "sfb < FFMIN(sce->ics.max_sfb, MAX_LTP_LONG_SFB)"
LtpBandLimit(lay) == FFMIN(lay.max_sfb, MAX_LTP_LONG_SFB)

\* Every band below the limit, whatever its used flag.
LtpAddsAll(l, lay, i) ==
    \E sfb \in 0..(LtpBandLimit(lay) - 1) :
        lay.swb_offset[sfb] <= i /\ i < lay.swb_offset[sfb + 1]

\* Whether the loops at the end of apply_ltp reach coefficient i.
LtpAdds(l, lay, i) ==
    \E sfb \in 0..(LtpBandLimit(lay) - 1) :
        /\ l.used[sfb] # 0
        /\ lay.swb_offset[sfb] <= i
        /\ i < lay.swb_offset[sfb + 1]

\* The prediction stored over the history it is made from.
LtpHistoryOverwritten(state, predTime) ==
    [j \in DOMAIN state |-> IF j \in DOMAIN predTime THEN predTime[j] ELSE state[j]]

\* sce->ltp_state after apply_ltp: "INTFLOAT *predTime = sce->output;" is
\* where the prediction is stored, ltp_state is only read.
LtpHistory(state, predTime) == state

\* apply_ltp(ac, sce) on the channel state c = [coeffs, output, buf_mdct]
\* with the history state.
apply_ltp(c, state, l, t, lay, garbage) ==
    IF lay.window_sequence # EIGHT_SHORT_SEQUENCE THEN
        LET predTime == PredTime(state, l, garbage)
            freq     == windowing_and_mdct_ltp(predTime, lay)
            filtered == apply_tns(freq, t, lay, 0, garbage)
            predFreq == IF LtpRunsTns(t) THEN filtered.coef ELSE freq
        IN [coeffs   |-> [i \in DOMAIN c.coeffs |->
                             IF LtpAdds(l, lay, i) THEN FAdd(c.coeffs[i], predFreq[i])
                             ELSE c.coeffs[i]],
            output   |-> predTime,
            buf_mdct |-> predFreq,
            ltp_state |-> LtpHistory(state, predTime),
            rd       |-> { LtpIndex(i, l.lag) : i \in 0..(NumSamples(l.lag) - 1) },
            steps    |-> <<"predict", "mdct">>
                         \o (IF LtpRunsTns(t) THEN <<"tns">> ELSE <<>>)
                         \o <<"add">>,
            tns_wr   |-> IF LtpRunsTns(t) THEN filtered.wr ELSE {}]
    ELSE [coeffs |-> c.coeffs, output |-> c.output, buf_mdct |-> c.buf_mdct,
          ltp_state |-> state, rd |-> {}, steps |-> <<>>, tns_wr |-> {}]

(* ------------------------------------------------------------------ *)
(* The prediction history (update_ltp)                                  *)
(* ------------------------------------------------------------------ *)
\* The window tables: aac_kbd_long_1024 or sine_1024, aac_kbd_short_128 or
\* sine_128, chosen by use_kb_window[0].
LongWindow(kb) == [i \in 0..1023 |-> IF kb # 0 THEN 1 + (i % 5) ELSE 2 + (i % 3)]
ShortWindow(kb) == [i \in 0..127 |-> IF kb # 0 THEN 1 + (i % 4) ELSE 3 + (i % 2)]

\* The product of a sample and a window value.
AAC_MUL31(x, y) == FMul(x, y)

\* vector_fmul_reverse(dst, src0, src1, len): dst[i] = src0[i] * src1[len-1-i];
\* src0 starts at index s0 of a, src1 at index s1 of b.
vector_fmul_reverse(a, s0, b, s1, len) ==
    [i \in 0..(len - 1) |-> FMul(a[s0 + i], b[s1 + len - 1 - i])]

\* dst with dst[at + i] = src[i] for every i of src.
StoreAt(dst, at, src) ==
    [j \in DOMAIN dst |-> IF (j - at) \in DOMAIN src THEN src[j - at] ELSE dst[j]]

\* The short tail zeroed from 640 on: 576..639 keep what the scratch held.
ShortTailGap(saved_ltp, buf, swindow) ==
    LET zeroed == StoreAt(saved_ltp, 640, [i \in 0..383 |-> 0])
        rev    == StoreAt(zeroed, 448, vector_fmul_reverse(buf, 960, swindow, 64, 64))
    IN StoreAt(rev, 512, [i \in 0..63 |-> AAC_MUL31(buf[1023 - i], swindow[63 - i])])

\* The short tail with the overlap kept up to 512: only the 64 samples from
\* 512 on are windowed.
ShortTailKeep512(saved_ltp, buf, swindow) ==
    LET zeroed == StoreAt(saved_ltp, 576, [i \in 0..447 |-> 0])
    IN StoreAt(zeroed, 512, [i \in 0..63 |-> AAC_MUL31(buf[1023 - i], swindow[63 - i])])

\* The tail the short windows leave: "memset(saved_ltp + 576, 0, 448 ...);
\* vector_fmul_reverse(saved_ltp + 448, buf_mdct + 960, &swindow[64], 64);
\* for (i = 0; i < 64; i++) saved_ltp[i + 512] = AAC_MUL31(buf_mdct[1023 - i],
\* swindow[63 - i]);"
ShortTail(saved_ltp, buf, swindow) ==
    LET zeroed == StoreAt(saved_ltp, 576, [i \in 0..447 |-> 0])
        rev    == StoreAt(zeroed, 448, vector_fmul_reverse(buf, 960, swindow, 64, 64))
    IN StoreAt(rev, 512, [i \in 0..63 |-> AAC_MUL31(buf[1023 - i], swindow[63 - i])])

\* What update_ltp leaves in saved_ltp, that is in coeffs[].
SavedLtp(c, buf, sav, lay) ==
    LET lwindow == LongWindow(lay.use_kb_window)
        swindow == ShortWindow(lay.use_kb_window)
    IN IF lay.window_sequence = EIGHT_SHORT_SEQUENCE THEN
           ShortTail(StoreAt(c, 0, [i \in 0..511 |-> sav[i]]), buf, swindow)
       ELSE IF lay.window_sequence = LONG_START_SEQUENCE THEN
           ShortTail(StoreAt(c, 0, [i \in 0..447 |-> buf[512 + i]]), buf, swindow)
       ELSE
           StoreAt(StoreAt(c, 0, vector_fmul_reverse(buf, 512, lwindow, 512, 512)),
                   512, [i \in 0..511 |-> AAC_MUL31(buf[1023 - i], lwindow[511 - i])])

\* The output and the tail in each other's place.
LtpShiftSwapped(state, out, tail) ==
    [j \in 0..3071 |->
        IF j < 1024 THEN state[j + 1024]
        ELSE IF j < 2048 THEN tail[j - 1024]
        ELSE out[j - 2048]]

\* The history not aged: only the middle and the last third replaced.
LtpShiftNoAge(state, out, tail) ==
    [j \in 0..3071 |->
        IF j < 1024 THEN state[j]
        ELSE IF j < 2048 THEN out[j - 1024]
        ELSE tail[j - 2048]]

\* The three memcpy at the end of update_ltp.
LtpShift(state, out, tail) ==
    [j \in 0..3071 |->
        IF j < 1024 THEN state[j + 1024]
        ELSE IF j < 2048 THEN out[j - 1024]
        ELSE tail[j - 2048]]

\* update_ltp(ac, sce).
update_ltp(c, state, out, buf, sav, lay) ==
    LET saved_ltp == SavedLtp(c, buf, sav, lay) IN
    [coeffs |-> saved_ltp, ltp_state |-> LtpShift(state, out, saved_ltp)]

(* ------------------------------------------------------------------ *)
(* Frames of a channel with long-term prediction                        *)
(* ------------------------------------------------------------------ *)
\* Frames decoded in a run.
MaxFrames == 3

\* A long window with more bands than MAX_LTP_LONG_SFB.
LtpNumSwb == MAX_LTP_LONG_SFB + 2
LtpSwb == [i \in 0..LtpNumSwb |-> 2 * i]

LtpLayout(ws, msfb, kb) ==
    [window_sequence   |-> ws,
     num_windows       |-> IF ws = EIGHT_SHORT_SEQUENCE THEN 8 ELSE 1,
     num_window_groups |-> 1,
     group_len         |-> [g \in {0} |-> IF ws = EIGHT_SHORT_SEQUENCE THEN 8 ELSE 1],
     max_sfb           |-> msfb,
     num_swb           |-> LtpNumSwb,
     swb_offset        |-> LtpSwb,
     tns_max_bands     |-> LtpNumSwb,
     use_kb_window     |-> kb]

\* The used[] flags a frame may carry.
LtpUsed ==
    { [sfb \in 0..(MAX_LTP_LONG_SFB - 1) |-> 1],
      [sfb \in 0..(MAX_LTP_LONG_SFB - 1) |-> sfb % 2] }

\* Lags at and around the two ends and the middle of the range 0..2047.
LtpLags == {0, 1, 1023, 1024, 2047}

\* No filter, or one filter over all bands but the lowest, up or down, or
\* the filter of an earlier frame left behind with present = 0.
LtpTns ==
    {TnsOf({}, <<>>)}
    \cup { TnsOf({0}, <<TnsSlot(LtpNumSwb - 1, MaxOrder, dir)>>) : dir \in 0..1 }
    \cup {[TnsOf({0}, <<TnsSlot(LtpNumSwb - 1, MaxOrder, 0)>>) EXCEPT !.present = 0]}

\* What the synthesis stage leaves for frame n: the time output, the
\* transform buffer and the overlap.
Marker(n, i) == n * 5000 + i
BufMark(n, k) == (k % 13) + n
SavedMark(n, k) == 7 * n + (k % 3)

\* The spectrum of frame n as the bitstream stage hands it over.
FrameCoeffs(n) == [p \in 0..1023 |-> ((p + n) % 7) + 2]

\* A channel in mid-stream.  Either the frame data of a long block vary, or
\* the block type and the window shape.
InitLtp ==
    /\ \/ \E msfb \in {3, LtpNumSwb} :
            /\ ics = [chn \in Channels |-> LtpLayout(ONLY_LONG_SEQUENCE, msfb, 0)]
            /\ \E lag \in LtpLags, used \in LtpUsed :
                  ltp = [present |-> 1, lag |-> lag, coef |-> 2, used |-> used]
            /\ tns \in LtpTns
       \/ \E ws \in {ONLY_LONG_SEQUENCE, LONG_START_SEQUENCE, EIGHT_SHORT_SEQUENCE,
                     LONG_STOP_SEQUENCE},
             kb \in 0..1 :
            /\ ics = [chn \in Channels |-> LtpLayout(ws, LtpNumSwb, kb)]
            /\ ltp = [present |-> 1, lag |-> 512, coef |-> 2,
                      used |-> [sfb \in 0..(MAX_LTP_LONG_SFB - 1) |-> 1]]
            /\ tns = TnsOf({}, <<>>)
    /\ coeffs = [chn \in Channels |-> IF chn = 0 THEN FrameCoeffs(0) ELSE <<>>]
    /\ ltp_state = [j \in 0..3071 |-> j + 1]
    /\ output = [i \in 0..2047 |-> 5]
    /\ buf_mdct = [k \in 0..1023 |-> 9]
    /\ saved = [k \in 0..511 |-> SavedMark(0, k)]
    /\ nframe = 0
    /\ llog = <<>>
    /\ band_type = [chn \in Channels |-> [idx \in SfIdx |-> ESC_BT]]
    /\ band_type_run_end = [chn \in Channels |-> [idx \in SfIdx |-> 0]]
    /\ sfo = [chn \in Channels |-> [idx \in SfIdx |-> 0]]
    /\ sf = [chn \in Channels |-> [idx \in SfIdx |-> StaleSf(idx)]]
    /\ ms_mask = [idx \in SfIdx |-> 0]
    /\ ms_present = 0
    /\ pc = "ltp"
    /\ op = "init"
    /\ opch = 0
    /\ dq = Channels
    /\ nms = 0
    /\ prev = Snapshot
    /\ wlog = <<>>
    /\ final_idx = 0
    /\ wr = {}
    /\ rd = {}
    /\ tlog = <<>>


\* What the operations below leave alone.
frame == <<ics, band_type, band_type_run_end, sfo, sf, ms_mask, ms_present,
           opch, dq, nms, wlog, final_idx, tlog>>

\* apply_ltp on the first channel, once its spectrum is decoded.
ApplyLtp ==
    /\ pc = "ltp"
    /\ \E g \in Garbage :
        LET r == apply_ltp([coeffs |-> coeffs[0], output |-> output,
                            buf_mdct |-> buf_mdct],
                           ltp_state, ltp, tns, ics[0], g) IN
        /\ coeffs' = [coeffs EXCEPT ![0] = r.coeffs]
        /\ output' = r.output
        /\ buf_mdct' = r.buf_mdct
        /\ ltp_state' = r.ltp_state
        /\ llog' = [rd |-> r.rd, steps |-> r.steps, tns_wr |-> r.tns_wr]
    /\ prev' = Snapshot
    /\ op' = "ltp"
    /\ pc' = "synth"
    /\ wr' = { a \in {0} \X (0..1023) : coeffs'[0][a[2]] # coeffs[0][a[2]] }
    /\ rd' = {}
    /\ UNCHANGED <<frame, tns, ltp, saved, nframe>>

\* An array of floats with an entry that is not finite.
HasNonFinite(a) == \E i \in DOMAIN a : a[i] = NonFinite

\* The synthesis stage, which is not part of this file: the inverse transform
\* leaves its result in buf_mdct, the windowed overlap-add leaves the new
\* frame in output[0..1023] and the next overlap in saved[].  Every sample of
\* the transform is a weighted sum of all coefficients of the spectrum: one
\* coefficient that is not finite leaves no sample finite.
Synthesize ==
    /\ pc = "synth"
    /\ nframe' = nframe + 1
    /\ IF HasNonFinite(coeffs[0])
       THEN /\ output' = [i \in 0..2047 |-> IF i < 1024 THEN NonFinite ELSE output[i]]
            /\ buf_mdct' = [k \in 0..1023 |-> NonFinite]
            /\ saved' = [k \in 0..511 |-> NonFinite]
       ELSE /\ IF HasNonFinite(saved)
               THEN output' = [i \in 0..2047 |->
                                  IF i < 1024 THEN NonFinite ELSE output[i]]
               ELSE output' = [i \in 0..2047 |->
                                  IF i < 1024 THEN Marker(nframe + 1, i) ELSE output[i]]
            /\ buf_mdct' = [k \in 0..1023 |-> BufMark(nframe + 1, k)]
            /\ saved' = [k \in 0..511 |-> SavedMark(nframe + 1, k)]
    /\ op' = "synth"
    /\ pc' = "update"
    /\ UNCHANGED <<frame, coeffs, prev, wr, rd, tns, ltp, ltp_state, llog>>

\* update_ltp after the synthesis of the frame.
UpdateLtp ==
    /\ pc = "update"
    /\ LET r == update_ltp(coeffs[0], ltp_state, output, buf_mdct, saved, ics[0]) IN
        /\ coeffs' = [coeffs EXCEPT ![0] = r.coeffs]
        /\ ltp_state' = r.ltp_state
    /\ prev' = Snapshot
    /\ llog' = <<>>
    /\ op' = "update"
    /\ pc' = "parse"
    /\ wr' = {}
    /\ rd' = {}
    /\ UNCHANGED <<frame, tns, ltp, output, buf_mdct, saved, nframe>>

\* The bitstream stage hands over the spectrum of the next frame.
Parse ==
    /\ pc = "parse"
    /\ nframe < MaxFrames
    /\ coeffs' = [coeffs EXCEPT ![0] = FrameCoeffs(nframe)]
    /\ op' = "parse"
    /\ pc' = "ltp"
    /\ UNCHANGED <<frame, prev, wr, rd, tns, ltp, ltp_state, output, buf_mdct,
                   saved, nframe, llog>>

NextLtp == ApplyLtp \/ Synthesize \/ UpdateLtp \/ Parse

SpecLtp == InitLtp /\ [][NextLtp]_vars

(* ------------------------------------------------------------------ *)
(* Long-term prediction as the data model describes it                  *)
(* ------------------------------------------------------------------ *)
\* apply_ltp has just run on a block that is not an eight-short one.
LtpDone == op = "ltp" /\ ics[0].window_sequence # EIGHT_SHORT_SEQUENCE

\* The number of predicted samples the claim gives for a lag.
Predicted(lag) == IF lag < 1024 THEN lag + 1024 ELSE 2048

\* C17: on a block that is not eight-short apply_ltp builds the prediction
\* buffer as pred[i] = coef * ltp_state[i + 2048 - lag] for i < n and 0 for
\* n <= i < 2048, with n = lag + 1024 if lag < 1024 and 2048 otherwise; for
\* every lag in 0..2047 every index read from ltp_state lies in [0, 3072), and
\* with lag = 0 exactly ltp_state[2048..3071] is read.
C17_PredictionBuffer ==
    /\ LtpDone =>
        /\ \A i \in 0..2047 :
              IF i < Predicted(ltp.lag)
              THEN /\ (i + 2048 - ltp.lag) \in 0..3071
                   /\ output[i] = ltp.coef * ltp_state[i + 2048 - ltp.lag]
              ELSE output[i] = 0
        /\ llog.rd \subseteq 0..3071
        /\ llog.rd = { i + 2048 - ltp.lag : i \in 0..(Predicted(ltp.lag) - 1) }
        /\ ltp.lag = 0 => llog.rd = 2048..3071
    /\ \A lag \in 0..2047 :
        /\ NumSamples(lag) = Predicted(lag)
        /\ LtpIndex(0, lag) >= 0
        /\ LtpIndex(NumSamples(lag) - 1, lag) < 3072

\* A prediction from a history of synthesized frames that is cut short by
\* the lag and zero-filled.
C17_Witness ==
    /\ LtpDone
    /\ nframe >= 1
    /\ ltp.lag = 1
    /\ output[Predicted(ltp.lag) - 1] # 0
    /\ output[2047] = 0
    /\ 3071 \in llog.rd

\* The bands long-term prediction is added to, and their coefficients.
LtpBands ==
    { sfb \in 0..(ics[0].num_swb - 1) :
        /\ sfb < ics[0].max_sfb
        /\ sfb < MAX_LTP_LONG_SFB
        /\ ltp.used[sfb] # 0 }

BandOf(i) ==
    CHOOSE sfb \in 0..(ics[0].num_swb - 1) :
        ics[0].swb_offset[sfb] <= i /\ i < ics[0].swb_offset[sfb + 1]

InBands(i) == i < ics[0].swb_offset[ics[0].num_swb]

\* C18: apply_ltp adds the predicted spectrum to the coefficients of the
\* channel over [swb_offset[sfb], swb_offset[sfb+1]) for every
\* sfb < min(max_sfb, MAX_LTP_LONG_SFB) with used[sfb] set and nowhere else:
\* the bands with used unset, the bands at or beyond the cap and the whole
\* spectrum of an eight-short block keep their values.
C18_LtpAddsUsedBands ==
    /\ LtpDone =>
        \A i \in 0..1023 :
            coeffs[0][i] =
                IF InBands(i) /\ BandOf(i) \in LtpBands
                THEN prev.coeffs[0][i] + buf_mdct[i]
                ELSE prev.coeffs[0][i]
    /\ (op = "ltp" /\ ics[0].window_sequence = EIGHT_SHORT_SEQUENCE) =>
        coeffs = prev.coeffs

\* A frame with bands beyond the cap, where a used band has changed while an
\* unused band and a band beyond the cap have kept their values although the
\* prediction for them is not zero.
C18_Witness ==
    /\ LtpDone
    /\ ics[0].max_sfb > MAX_LTP_LONG_SFB
    /\ \E i \in 0..1023 :
        InBands(i) /\ BandOf(i) \in LtpBands /\ coeffs[0][i] # prev.coeffs[0][i]
    /\ \E i \in 0..1023 :
        /\ InBands(i) /\ BandOf(i) < MAX_LTP_LONG_SFB /\ ltp.used[BandOf(i)] = 0
        /\ buf_mdct[i] # 0 /\ coeffs[0][i] = prev.coeffs[0][i]
    /\ \E i \in 0..1023 :
        /\ InBands(i) /\ BandOf(i) >= MAX_LTP_LONG_SFB /\ BandOf(i) < ics[0].max_sfb
        /\ buf_mdct[i] # 0 /\ coeffs[0][i] = prev.coeffs[0][i]

\* The predicted spectrum before any filter, from the prediction buffer.
Transformed == windowing_and_mdct_ltp(output, ics[0])

\* C19: on a block that is not eight-short apply_ltp builds the prediction
\* buffer, transforms it, runs the TNS filter in synthesis direction
\* (decode = 0) on the predicted spectrum if and only if tns.present is set,
\* and adds the bands last; the filter touches the predicted spectrum only,
\* never the coefficients of the channel.
C19_LtpOrder ==
    LtpDone =>
        /\ llog.steps = IF tns.present # 0
                        THEN <<"predict", "mdct", "tns", "add">>
                        ELSE <<"predict", "mdct", "add">>
        /\ \A g \in Garbage :
              buf_mdct = IF tns.present # 0
                         THEN apply_tns(Transformed, tns, ics[0], 0, g).coef
                         ELSE Transformed
        /\ \A i \in 0..1023 :
              \/ coeffs[0][i] = prev.coeffs[0][i]
              \/ coeffs[0][i] = prev.coeffs[0][i] + buf_mdct[i]
        /\ \A i \in llog.tns_wr :
              ~(InBands(i) /\ BandOf(i) \in LtpBands) => coeffs[0][i] = prev.coeffs[0][i]

\* The filter has changed the predicted spectrum, in a band that is added
\* and in a band that is not.
C19_Witness ==
    /\ LtpDone
    /\ tns.present = 1
    /\ \E i \in llog.tns_wr :
        /\ buf_mdct[i] # Transformed[i]
        /\ BandOf(i) \in LtpBands
        /\ coeffs[0][i] = prev.coeffs[0][i] + buf_mdct[i]
        /\ coeffs[0][i] # prev.coeffs[0][i] + Transformed[i]
    /\ \E i \in llog.tns_wr :
        /\ buf_mdct[i] # Transformed[i]
        /\ BandOf(i) \notin LtpBands
        /\ coeffs[0][i] = prev.coeffs[0][i]

\* update_ltp has just run, for the nframe-th time.
Updated == op = "update"

Third(k) == [i \in 0..1023 |-> ltp_state[k * 1024 + i]]
MarkerFrame(n) == [i \in 0..1023 |-> Marker(n, i)]

\* C20 as stated: after N >= 3 calls of update_ltp, each after the synthesis
\* of a marker frame, ltp_state holds the frames N-2, N-1 and N in its first,
\* middle and last third.
C20_LastThreeFrames ==
    (Updated /\ nframe >= 3) =>
        /\ Third(0) = MarkerFrame(nframe - 2)
        /\ Third(1) = MarkerFrame(nframe - 1)
        /\ Third(2) = MarkerFrame(nframe)

\* C20: after N >= 2 calls of update_ltp, each after the synthesis of a marker
\* frame, the first third of ltp_state is frame N-1, the middle third is
\* frame N, and the last third is the windowed overlap the N-th call has
\* computed into the coefficient buffer of the channel, which is no frame;
\* frame N-2 is in no third.
C20_LastTwoFramesAndTail ==
    (Updated /\ nframe >= 2) =>
        /\ Third(0) = MarkerFrame(nframe - 1)
        /\ Third(1) = MarkerFrame(nframe)
        /\ Third(2) = [i \in 0..1023 |-> coeffs[0][i]]
        /\ Third(2) = SavedLtp(prev.coeffs[0], buf_mdct, saved, ics[0])
        /\ \A k \in 0..2 : \A n \in 0..nframe :
              Third(k) = MarkerFrame(n) => k = n - nframe + 1
        /\ \A k \in 0..2 : Third(k) # MarkerFrame(nframe - 2)

\* The third update of a run.
C20_Witness ==
    /\ Updated
    /\ nframe >= 3
    /\ ltp_state[0] = Marker(nframe - 1, 0)
    /\ ltp_state[2047] = Marker(nframe, 1023)
    /\ ltp_state[2048] # Marker(nframe, 0)

(* ------------------------------------------------------------------ *)
(* The prediction history as the data model describes it                *)
(* ------------------------------------------------------------------ *)
\* A step of update_ltp.
UpdateStep == pc = "update" /\ op' = "update"

\* C21: one call of update_ltp, whatever the window sequence, leaves
\* ltp_state[0..1023] equal to the previous ltp_state[1024..2047],
\* ltp_state[1024..2047] equal to output[0..1023] and ltp_state[2048..3071]
\* equal to the tail the call has computed; the previous first and last
\* thirds are gone.
C21_UpdateThirds ==
    [][UpdateStep =>
        /\ \A i \in 0..1023 :
              /\ ltp_state'[i] = ltp_state[1024 + i]
              /\ ltp_state'[1024 + i] = output[i]
              /\ ltp_state'[2048 + i] = coeffs'[0][i]
        /\ [i \in 0..1023 |-> coeffs'[0][i]]
              = SavedLtp(coeffs[0], buf_mdct, saved, ics[0])
        /\ DOMAIN ltp_state' = 0..3071]_vars

\* An update on a long-start block that has replaced all three thirds.
C21_Witness ==
    /\ Updated
    /\ ics[0].window_sequence = LONG_START_SEQUENCE
    /\ nframe >= 2
    /\ Third(0) = MarkerFrame(nframe - 1)
    /\ Third(1) = [i \in 0..1023 |-> output[i]]
    /\ Third(2) = [i \in 0..1023 |-> coeffs[0][i]]
    /\ Third(2) # Third(1)

\* update_ltp has just run on an eight-short block.
UpdatedShort == Updated /\ ics[0].window_sequence = EIGHT_SHORT_SEQUENCE

\* C22 as stated: after update_ltp on an eight-short block the first 512
\* samples of the new tail equal saved[0..511] and the 448 samples after
\* them are zero.
C22_ShortTailCopy512 ==
    UpdatedShort =>
        /\ \A i \in 0..511 : ltp_state[2048 + i] = saved[i]
        /\ \A i \in 512..959 : ltp_state[2048 + i] = 0

\* C22: after update_ltp on an eight-short block the first 448 samples of the
\* new tail equal saved[0..447], the next 128 are samples of buf_mdct weighted
\* by the short window (tail[448+i] = buf_mdct[960+i] * swindow[127-i] and
\* tail[512+i] = buf_mdct[1023-i] * swindow[63-i] for i < 64), and the last
\* 448 samples, tail[576..1023], are zero.
C22_ShortTailLayout ==
    UpdatedShort =>
        LET swindow == ShortWindow(ics[0].use_kb_window) IN
        /\ \A i \in 0..447 : ltp_state[2048 + i] = saved[i]
        /\ \A i \in 0..63 :
              /\ ltp_state[2048 + 448 + i] = buf_mdct[960 + i] * swindow[127 - i]
              /\ ltp_state[2048 + 512 + i] = buf_mdct[1023 - i] * swindow[63 - i]
        /\ \A i \in 576..1023 : ltp_state[2048 + i] = 0

\* An eight-short update whose windowed samples differ from the overlap they
\* were written over and are not zero.
C22_Witness ==
    /\ UpdatedShort
    /\ nframe >= 1
    /\ ltp_state[2048 + 447] = saved[447]
    /\ ltp_state[2048 + 448] # saved[448]
    /\ ltp_state[2048 + 512] # 0
    /\ ltp_state[2048 + 576] = 0

\* The tail update_ltp computes when the scratch held g everywhere.
TailOver(g) == SavedLtp([i \in 0..1023 |-> g], buf_mdct, saved, ics[0])

\* C30: for every window sequence update_ltp writes each of the 1024 entries
\* of the tail before it copies the tail to ltp_state[2048..3071]: the new
\* ltp_state does not depend on what the coefficient buffer held before the
\* call, and the first 1024 coefficients of the channel end up as the tail.
C30_TailFullyWritten ==
    [][UpdateStep =>
        /\ \A g \in Garbage :
              [i \in 0..1023 |-> ltp_state'[2048 + i]] = TailOver(g)
        /\ \A i \in 0..1023 : coeffs'[0][i] = ltp_state'[2048 + i]]_vars

\* An update on a long-start block that has overwritten coefficients which
\* apply_ltp had left different from the tail.
C30_Witness ==
    /\ Updated
    /\ ics[0].window_sequence = LONG_START_SEQUENCE
    /\ \E i \in 0..447 : coeffs[0][i] # prev.coeffs[0][i]
    /\ \E i \in 576..1023 : coeffs[0][i] # prev.coeffs[0][i]
    /\ \A i \in 0..1023 : coeffs[0][i] = ltp_state[2048 + i]

\* The band range [bottom, top) the last call logged for a slot.
Bands(s) == SlotLog(s).bottom..(SlotLog(s).top - 1)

\* C25: the band range of filter slot f of a window is
\* [max(0, top_f - length[f]), top_f) with top_0 = num_swb and
\* top_{f+1} = bottom_f: the ranges are visited from the highest band
\* downwards, the spans of the filters of a window are pairwise disjoint, and
\* a filter of order 0 takes its length all the same.
C25_BandRanges ==
    (TnsDone /\ TnsLimit # 0) =>
        /\ Len(tlog.slots) = Cardinality(TnsSlots)
        /\ \A s \in TnsSlots :
              LET e == SlotLog(s) IN
              /\ e.top = IF s[2] = 0 THEN ics[0].num_swb
                         ELSE SlotLog(<<s[1], s[2] - 1>>).bottom
              /\ e.bottom = FFMAX(0, e.top - tns.length[s[1]][s[2]])
              /\ e.top = TopBand(s[1], s[2])
        /\ \A k \in 1..(Len(tlog.slots) - 1) :
              LET a == tlog.slots[k]
                  b == tlog.slots[k + 1]
              IN \/ a.w < b.w
                 \/ a.w = b.w /\ b.filt = a.filt + 1 /\ b.top <= a.bottom
        /\ \A s \in TnsSlots : \A u \in TnsSlots :
              (s[1] = u[1] /\ s[2] # u[2]) =>
                  /\ Bands(s) \cap Bands(u) = {}
                  /\ Span(s[1], s[2]) \cap Span(u[1], u[2]) = {}

\* A filter of order 0 that takes bands, followed by a filter that works on
\* the bands below it.
C25_Witness ==
    /\ TnsDone
    /\ \E s \in TnsSlots : \E u \in Working :
        /\ s[1] = u[1] /\ u[2] = s[2] + 1
        /\ Order(s) = 0
        /\ tns.length[s[1]][s[2]] > 0
        /\ SlotLog(u).top < ics[0].num_swb
        /\ SlotLog(u).top = SlotLog(s).bottom
        /\ coeffs # prev.coeffs

\* C28: the result of apply_tns in synthesis direction depends neither on
\* what tmp[] held at the start nor on what an earlier filter or window left
\* in it: an entry tmp[i] is read only after it was written from an input
\* sample of the span at work.
C28_TmpDeterministic ==
    (TnsDone /\ tlog.decode = 0) =>
        /\ \A r \in tlog.tmprd : r[2] = r[3]
        /\ \A g \in Garbage :
              apply_tns(prev.coeffs[0], tns, ics[0], 0, g).coef = coeffs[0]

\* Two filters of one window, both longer than their order, the second
\* starting with what the first left in tmp[].
C28_Witness ==
    /\ TnsDone
    /\ tlog.decode = 0
    /\ \E s \in Working : \E u \in Working :
        /\ s[1] = u[1] /\ u[2] = s[2] + 1
        /\ Order(s) = MaxOrder /\ Order(u) = MaxOrder
        /\ Size(s) > MaxOrder /\ Size(u) > MaxOrder
        /\ \E i \in 1..MaxOrder : <<i, s, s>> \in tlog.tmprd /\ <<i, u, u>> \in tlog.tmprd
    /\ coeffs # prev.coeffs

\* C27: with the same TNS parameters and band layout, apply_tns in synthesis
\* direction after apply_tns in decode direction gives back the spectrum the
\* first call found, and so does decode after synthesis.
C27_RoundTrip ==
    (TnsDone /\ tlog.calls = 2) => coeffs[0] = tlog.orig

\* A synthesis pass that has undone a decode pass of a filter of the highest
\* order, which had changed the spectrum.
C27_Witness ==
    /\ TnsDone
    /\ tlog.calls = 2
    /\ tlog.decode = 0
    /\ \E s \in Working :
        /\ Order(s) = MaxOrder
        /\ Size(s) > MaxOrder + 1
        /\ \E m \in 2..(Size(s) - 1) : X(s, m) # Y(s, m) /\ X(s, m - 1) # Y(s, m - 1)
    /\ coeffs[0] = tlog.orig


(* ------------------------------------------------------------------ *)
(* Termination of the run loops                                         *)
(* ------------------------------------------------------------------ *)
\* C26: with run ends that lie beyond the first band of their run, do not
\* exceed max_sfb and cover [0, max_sfb) in every group, dequant_scalefactors
\* comes to an end, stores to sf[0], sf[1], .. sf[n - 1] in this order, each
\* once, and leaves idx = n = num_window_groups * max_sfb;
\* apply_intensity_stereo comes to an end with the same idx.
C26_RunsCoverBands ==
    /\ pc = "dequant" =>
          /\ \A chn \in Channels : ~dequant_scalefactors(chn).hang
          /\ ~apply_intensity_stereo.hang
    /\ op = "dequant" =>
          /\ Len(wlog) = NumBands(ics[opch])
          /\ \A k \in 1..Len(wlog) : wlog[k] = k - 1
          /\ final_idx = NumBands(ics[opch])
    /\ op = "is" => final_idx = NumBands(ics[1])

C26_Witness ==
    /\ op = "dequant"
    /\ opch = 1
    /\ band_type_run_end[1][0] = 2
    /\ wlog = <<0, 1>>
    /\ final_idx = 2


(* ------------------------------------------------------------------ *)
(* Mid/side and intensity stereo on one frame                           *)
(* ------------------------------------------------------------------ *)
\* Band idx has a coefficient among the stores s.
StoredTo(s, idx) ==
    \E p \in BandPos(ics[1], idx) : \E chn \in Channels : <<chn, p>> \in s

\* C29: when apply_intensity_stereo follows apply_mid_side_stereo, no band is
\* stored to by both; a band whose second-channel type is INTENSITY or
\* INTENSITY_ALT comes out of apply_mid_side_stereo as it went in, whatever
\* its mask bit, and the bit only selects the sign of the intensity scale.
C29_StereoToolsDisjoint ==
    [][ /\ op' = "ms" =>
             \A idx \in Used(1) :
                 band_type[1][idx] \in Intensities => Untouched(idx)'
        /\ (op = "ms" /\ op' = "is") =>
             \A idx \in Used(1) :
                 /\ ~(StoredTo(wr, idx) /\ StoredTo(wr', idx))
                 /\ band_type[1][idx] \in Intensities =>
                        \A p \in BandPos(ics[1], idx) :
                            coeffs'[1][p] =
                                coeffs[0][p] * (ClaimedSign(idx) * sf[1][idx])
      ]_vars

C29_Witness ==
    /\ op = "is"
    /\ nms = 1
    /\ ms_present = 1
    /\ \E a, b \in Used(1) :
        /\ ms_mask[a] = 1 /\ ms_mask[b] = 1
        /\ band_type[0][a] = ESC_BT /\ band_type[1][a] = ESC_BT
        /\ band_type[0][b] = ESC_BT /\ band_type[1][b] = INTENSITY_BT2
        /\ sf[1][b] # 0
        /\ \A p \in BandPos(ics[1], a) :
              /\ coeffs[0][p] = InitCoef(0, p) + InitCoef(1, p)
              /\ coeffs[1][p] = InitCoef(0, p) - InitCoef(1, p)
        /\ \A p \in BandPos(ics[1], b) :
              /\ coeffs[0][p] = InitCoef(0, p)
              /\ coeffs[1][p] = InitCoef(0, p) * sf[1][b]


(* ------------------------------------------------------------------ *)
(* The six operations on channels that carry a prediction history       *)
(* ------------------------------------------------------------------ *)
\* The prediction buffers of a channel in mid-stream whose frame carries no
\* long-term prediction.
LtpIdle ==
    /\ ltp = [present |-> 0]
    /\ ltp_state = [j \in 0..3071 |-> j + 1]
    /\ output = [i \in 0..2047 |-> 5]
    /\ buf_mdct = [k \in 0..1023 |-> 9]
    /\ saved = [k \in 0..511 |-> SavedMark(0, k)]
    /\ nframe = 0
    /\ llog = <<>>

\* A channel pair of one band a group before dequant_scalefactors.
InitPairFrame ==
    /\ \E lay \in { l \in Layouts : l.max_sfb = 1 } :
        /\ ics = [chn \in Channels |-> lay]
        /\ \E d0 \in SingleRuns(lay, {ESC_BT}),
              d1 \in SingleRuns(lay, {ESC_BT, INTENSITY_BT}) :
            /\ band_type = [chn \in Channels |-> IF chn = 0 THEN d0.bt ELSE d1.bt]
            /\ band_type_run_end = [chn \in Channels |-> IF chn = 0 THEN d0.re ELSE d1.re]
        /\ ms_present = 1
        /\ ms_mask \in Masks(lay)
        /\ coeffs = InitCoeffs(lay)
    /\ sfo = [chn \in Channels |-> [idx \in SfIdx |->
                 IF chn = 0 THEN 10 + idx ELSE 98 + 3 * idx]]
    /\ InitGhost
    /\ NoTns
    /\ LtpIdle

\* A frame before apply_tns with one filter over all bands of every window.
InitTnsFrame ==
    /\ \E lay \in { l \in TnsLayouts : l.max_sfb = MaxBands /\ l.tns_max_bands = NumSwb } :
        /\ ics = [chn \in Channels |-> lay]
        /\ coeffs = InitCoeffs(lay)
        /\ \E dir \in 0..1 :
            tns = TnsOf(0..(lay.num_windows - 1), <<TnsSlot(NumSwb, MaxOrder, dir)>>)
    /\ band_type = [chn \in Channels |-> [idx \in SfIdx |-> ESC_BT]]
    /\ band_type_run_end = [chn \in Channels |-> [idx \in SfIdx |-> 0]]
    /\ sfo = [chn \in Channels |-> [idx \in SfIdx |-> 0]]
    /\ sf = [chn \in Channels |-> [idx \in SfIdx |-> StaleSf(idx)]]
    /\ ms_mask = [idx \in SfIdx |-> 0]
    /\ ms_present = 0
    /\ pc = "tns"
    /\ op = "init"
    /\ opch = 0
    /\ dq = Channels
    /\ nms = 0
    /\ prev = Snapshot
    /\ wlog = <<>>
    /\ final_idx = 0
    /\ wr = {}
    /\ rd = {}
    /\ tlog = <<>>
    /\ LtpIdle

\* A channel with long-term prediction in mid-stream: the frames of InitLtp
\* with a lag of a quarter or of half the history and every band predicted.
InitLtpFrame ==
    /\ InitLtp
    /\ ltp.lag \in {512, 1024}
    /\ \A sfb \in DOMAIN ltp.used : ltp.used[sfb] = 1

InitFrames == InitPairFrame \/ InitTnsFrame \/ InitLtpFrame

NextFrames == Next \/ NextTns \/ NextLtp

SpecFrames == InitFrames /\ [][NextFrames]_vars

\* C24: ltp_state[] changes in a step of update_ltp only: dequant_scalefactors,
\* apply_mid_side_stereo, apply_intensity_stereo, apply_tns and apply_ltp
\* leave every entry as it is, and update_ltp leaves saved[] as it is.
C24_HistoryOwner ==
    [][ /\ ltp_state' # ltp_state => (pc = "update" /\ op' = "update")
        /\ op' \in {"dequant", "ms", "is", "tns", "ltp"} => ltp_state' = ltp_state
        /\ op' = "update" => saved' = saved
      ]_vars

C24_Witness ==
    /\ op = "ltp"
    /\ nframe >= 1
    /\ llog.rd # {}
    /\ ltp_state[1024] = Marker(nframe, 0)
    /\ output # [i \in 0..2047 |-> 5]


(* ------------------------------------------------------------------ *)
(* Results that are not finite (float build)                            *)
(* ------------------------------------------------------------------ *)
\* Where the spectrum of the first frame holds a value that is not finite.
NonFiniteAt == {0, 700, 1023}

\* A channel in mid-stream, frames without temporal noise shaping, whose
\* first spectrum holds one coefficient that is not finite.
InitNonFinite ==
    /\ \E ws \in {ONLY_LONG_SEQUENCE, LONG_START_SEQUENCE, EIGHT_SHORT_SEQUENCE,
                  LONG_STOP_SEQUENCE},
          kb \in 0..1 :
            ics = [chn \in Channels |-> LtpLayout(ws, LtpNumSwb, kb)]
    /\ \E lag \in {512, 2047} :
          ltp = [present |-> 1, lag |-> lag, coef |-> 2,
                 used |-> [sfb \in 0..(MAX_LTP_LONG_SFB - 1) |-> 1]]
    /\ tns = TnsOf({}, <<>>)
    /\ \E at \in NonFiniteAt :
          coeffs = [chn \in Channels |->
                       IF chn = 0
                       THEN [FrameCoeffs(0) EXCEPT ![at] = NonFinite]
                       ELSE <<>>]
    /\ ltp_state = [j \in 0..3071 |-> j + 1]
    /\ output = [i \in 0..2047 |-> 5]
    /\ buf_mdct = [k \in 0..1023 |-> 9]
    /\ saved = [k \in 0..511 |-> SavedMark(0, k)]
    /\ nframe = 0
    /\ llog = <<>>
    /\ band_type = [chn \in Channels |-> [idx \in SfIdx |-> ESC_BT]]
    /\ band_type_run_end = [chn \in Channels |-> [idx \in SfIdx |-> 0]]
    /\ sfo = [chn \in Channels |-> [idx \in SfIdx |-> 0]]
    /\ sf = [chn \in Channels |-> [idx \in SfIdx |-> StaleSf(idx)]]
    /\ ms_mask = [idx \in SfIdx |-> 0]
    /\ ms_present = 0
    /\ pc = "ltp"
    /\ op = "init"
    /\ opch = 0
    /\ dq = Channels
    /\ nms = 0
    /\ prev = Snapshot
    /\ wlog = <<>>
    /\ final_idx = 0
    /\ wr = {}
    /\ rd = {}
    /\ tlog = <<>>

SpecNonFinite == InitNonFinite /\ [][NextLtp]_vars

\* C23: a value that is not finite, in the predicted spectrum or in the time
\* output, is stored as zero: apply_ltp run on a finite spectrum leaves every
\* coefficient finite, and update_ltp leaves every entry of ltp_state finite.
C23_NonFiniteZeroed ==
    /\ (op = "ltp" /\ ~HasNonFinite(prev.coeffs[0])) => ~HasNonFinite(coeffs[0])
    /\ op = "update" => ~HasNonFinite(ltp_state)

====
